---------------------------- MODULE Spec2Model ----------------------------
(***************************************************************************)
(* Model of the tree-data storage engine (crate `data`): the block         *)
(* allocator and file header (database.rs), the leaf and internal page     *)
(* codecs (page/leaf_page.rs, page/internal_page.rs), the B+-tree engine   *)
(* (page/btree.rs) and the nested tree API (tree.rs).                      *)
(*                                                                         *)
(* The device is modelled byte for byte, as the Cursor<Vec<u8>> the tests  *)
(* and the fuzzer use: offsets are 0-based file offsets, all integers are  *)
(* stored big-endian.  In-memory pages are records that are threaded       *)
(* through the operators exactly where the Rust code mutates `self`.       *)
(*                                                                         *)
(* A value `db` is the Database: [disk, meta, st].  st is "ok" while the   *)
(* call is running normally, "panic" after a Rust panic (assert, unwrap,   *)
(* index out of bounds, arithmetic overflow in a checked build) and "err"  *)
(* after an io::Error (a read past the end of the device).  Every operator *)
(* passes a non-"ok" db through unchanged, as `?` and unwinding do.        *)
(***************************************************************************)
EXTENDS Integers, Sequences, FiniteSets, TLC

\* ------------------------------------------------------------------ bounds
\* The code sets block_size_exp = 13 (database.rs:67).  The model scales the
\* block down so that leaf and root splits happen after a handful of inserts.
BlockSizeExp == 7
\* Keys are 1..MaxKey.
MaxKey == 3
\* Number of mutating calls in one run.
MaxOps == 5

\* ------------------------------------------------------- program constants
LEAF_TAG == 1
INTERNAL_TAG == 2
U64_SIZE == 8
KEY_SIZE == 16
U8_SIZE == 1
HEADER_BYTES == 24

None == <<>>
Some(x) == <<x>>

RECURSIVE to_be_bytes(_, _)
to_be_bytes(n, w) ==
  IF w = 0 THEN <<>> ELSE Append(to_be_bytes(n \div 256, w - 1), n % 256)

RECURSIVE from_be_bytes(_)
from_be_bytes(s) ==
  IF s = <<>> THEN 0
  ELSE from_be_bytes(SubSeq(s, 1, Len(s) - 1)) * 256 + s[Len(s)]

Zeros(n) == [i \in 1..n |-> 0]

\* Cursor<Vec<u8>>: seek(Start(off)) then write_all(bytes); a write past the
\* end first fills the gap with zeros.
DiskWrite(disk, off, bytes) ==
  LET padded == IF Len(disk) < off THEN disk \o Zeros(off - Len(disk)) ELSE disk
  IN  SubSeq(padded, 1, off) \o bytes \o SubSeq(padded, off + Len(bytes) + 1, Len(padded))

\* read_exact of n bytes at off succeeds only inside the device (a read of
\* no bytes succeeds anywhere).
CanRead(disk, off, n) == n = 0 \/ off + n <= Len(disk)
DiskRead(disk, off, n) == SubSeq(disk, off + 1, off + n)

Fail(db, s) == [db EXCEPT !.st = s]

RECURSIVE SeqSum(_)
SeqSum(s) == IF s = <<>> THEN 0 ELSE s[1] + SeqSum(Tail(s))

SetMin(S) == CHOOSE x \in S : \A y \in S : x <= y

\* binary_search whose match on keys[i] answers i + 1
binary_search_right(keys, key) ==
  IF \E i \in 1..Len(keys) : keys[i] = key
  THEN [found |-> TRUE, idx |-> CHOOSE i \in 1..Len(keys) : keys[i] = key]
  ELSE [found |-> FALSE, idx |-> Cardinality({i \in 1..Len(keys) : keys[i] < key})]

\* slice::binary_search on a strictly ascending slice: Ok(i) on a match,
\* otherwise Err(number of elements smaller than key).
binary_search(keys, key) ==
  IF \E i \in 1..Len(keys) : keys[i] = key
  THEN [found |-> TRUE, idx |-> (CHOOSE i \in 1..Len(keys) : keys[i] = key) - 1]
  ELSE [found |-> FALSE, idx |-> Cardinality({i \in 1..Len(keys) : keys[i] < key})]

\* Vec::remove / Vec::insert at a 0-based index.
VecRemove(v, i) == SubSeq(v, 1, i) \o SubSeq(v, i + 2, Len(v))
VecInsert(v, i, x) == SubSeq(v, 1, i) \o <<x>> \o SubSeq(v, i + 1, Len(v))

\* ---------------------------------------------------------------- database
block_size(meta) == 2 ^ meta.block_size_exp

DatabaseMeta_persist(meta, disk) ==
  DiskWrite(disk, 0,
    to_be_bytes(meta.block_size_exp, U64_SIZE)
      \o to_be_bytes(meta.num_blocks_allocated, U64_SIZE)
      \o to_be_bytes(meta.root_btree_offset, U64_SIZE))

init_header(disk) ==
  LET meta == [block_size_exp |-> BlockSizeExp,
               num_blocks_allocated |-> 1,
               root_btree_offset |-> 0]
  IN  [disk |-> DatabaseMeta_persist(meta, disk), meta |-> meta, st |-> "ok"]

Database_initialize(disk) == init_header(disk)

\* read_header that takes the bytes the device lacks as zeros
read_header_zero_filled(disk) ==
  [disk |-> disk,
   meta |-> [block_size_exp |-> from_be_bytes(DiskRead(DiskWrite(disk, HEADER_BYTES, <<>>), 0, U64_SIZE)),
             num_blocks_allocated |-> from_be_bytes(DiskRead(DiskWrite(disk, HEADER_BYTES, <<>>), 8, U64_SIZE)),
             root_btree_offset |-> from_be_bytes(DiskRead(DiskWrite(disk, HEADER_BYTES, <<>>), 16, U64_SIZE))],
   st |-> "ok"]

read_header(disk) ==
  IF ~CanRead(disk, 0, HEADER_BYTES) THEN [disk |-> disk, meta |-> <<>>, st |-> "err"]
  ELSE [disk |-> disk,
        meta |-> [block_size_exp |-> from_be_bytes(DiskRead(disk, 0, U64_SIZE)),
                  num_blocks_allocated |-> from_be_bytes(DiskRead(disk, 8, U64_SIZE)),
                  root_btree_offset |-> from_be_bytes(DiskRead(disk, 16, U64_SIZE))],
        st |-> "ok"]

Database_from_existing(disk) == read_header(disk)

\* allocate_block that hands out the block allocated last once more
allocate_block_recycled(db) ==
  IF db.st # "ok" THEN [db |-> db, val |-> 0]
  ELSE [db |-> [db EXCEPT
                  !.meta = [db.meta EXCEPT !.num_blocks_allocated = @ + 1],
                  !.disk = DatabaseMeta_persist(
                             [db.meta EXCEPT !.num_blocks_allocated = @ + 1], db.disk)],
        val |-> block_size(db.meta)
                  * (IF db.meta.num_blocks_allocated > 2
                     THEN db.meta.num_blocks_allocated - 1
                     ELSE db.meta.num_blocks_allocated)]

\* allocate_block that does not count the block it hands out
allocate_block_uncounted(db) ==
  IF db.st # "ok" THEN [db |-> db, val |-> 0]
  ELSE [db |-> [db EXCEPT !.disk = DatabaseMeta_persist(db.meta, db.disk)],
        val |-> block_size(db.meta) * db.meta.num_blocks_allocated]

allocate_block(db) ==
  IF db.st # "ok" THEN [db |-> db, val |-> 0]
  ELSE LET new_offset == block_size(db.meta) * db.meta.num_blocks_allocated
           meta == [db.meta EXCEPT !.num_blocks_allocated = @ + 1]
       IN  [db |-> [db EXCEPT !.meta = meta, !.disk = DatabaseMeta_persist(meta, db.disk)],
            val |-> new_offset]

Database_write(db, offset, data) ==
  IF db.st # "ok" THEN db ELSE [db EXCEPT !.disk = DiskWrite(db.disk, offset, data)]

\* --------------------------------------------------------------- leaf page
size_of_entry == KEY_SIZE + U64_SIZE * 2

LeafPage_header_len(page) == size_of_entry * Len(page.keys) + U64_SIZE + U8_SIZE

EncodeEntry(e) ==
  to_be_bytes(e.key, KEY_SIZE) \o to_be_bytes(e.offset, U64_SIZE)
    \o to_be_bytes(e.value_len, U64_SIZE)

RECURSIVE EncodeEntries(_)
EncodeEntries(es) ==
  IF es = <<>> THEN <<>> ELSE EncodeEntry(es[1]) \o EncodeEntries(Tail(es))

persist_header(page, disk) ==
  DiskWrite(disk, page.offset,
    <<LEAF_TAG>> \o to_be_bytes(Len(page.keys), U64_SIZE) \o EncodeEntries(page.keys))

\* LeafPage::read_header at `offset`: [st, page].
LeafPage_read_header(disk, offset) ==
  IF ~CanRead(disk, offset, U8_SIZE) THEN [st |-> "err", page |-> <<>>]
  ELSE IF disk[offset + 1] # LEAF_TAG THEN [st |-> "panic", page |-> <<>>]
  ELSE IF ~CanRead(disk, offset + 1, U64_SIZE) THEN [st |-> "err", page |-> <<>>]
  ELSE LET len == from_be_bytes(DiskRead(disk, offset + 1, U64_SIZE))
           base(i) == offset + U8_SIZE + U64_SIZE + size_of_entry * (i - 1)
       IN  IF ~CanRead(disk, offset + U8_SIZE + U64_SIZE, size_of_entry * len)
           THEN [st |-> "err", page |-> <<>>]
           ELSE [st |-> "ok",
                 page |-> [kind |-> "Leaf", offset |-> offset,
                           keys |-> [i \in 1..len |->
                             [key |-> from_be_bytes(DiskRead(disk, base(i), KEY_SIZE)),
                              offset |-> from_be_bytes(DiskRead(disk, base(i) + KEY_SIZE, U64_SIZE)),
                              value_len |-> from_be_bytes(
                                 DiskRead(disk, base(i) + KEY_SIZE + U64_SIZE, U64_SIZE))]]]]

\* The u64 subtractions of can_accommodate wrap or panic when the header and
\* the values exceed the page.
LeafPage_can_accommodate_overflows(page, page_size) ==
  /\ page.keys # <<>>
  /\ \/ LeafPage_header_len(page) > page_size
     \/ SeqSum([i \in 1..Len(page.keys) |-> page.keys[i].value_len])
          > page_size - LeafPage_header_len(page)

LeafPage_can_accommodate(page, data_len, page_size) ==
  IF page.keys = <<>> THEN TRUE
  ELSE LET space_taken_up == SeqSum([i \in 1..Len(page.keys) |-> page.keys[i].value_len])
           space_in_page_for_data == page_size - LeafPage_header_len(page)
           space_available == space_in_page_for_data - space_taken_up
       IN  space_available >= data_len + size_of_entry

FindEntry(page, key) ==
  LET S == {i \in 1..Len(page.keys) : page.keys[i].key = key}
  IN  IF S = {} THEN 0 ELSE SetMin(S)

\* lookup_value_alloc and lookup_value read the same bytes: [st, val].
lookup_value_alloc(page, key, disk) ==
  LET i == FindEntry(page, key)
  IN  IF i = 0 THEN [st |-> "ok", val |-> None]
      ELSE LET entry == page.keys[i]
           IN  IF ~CanRead(disk, page.offset + entry.offset, entry.value_len)
               THEN [st |-> "err", val |-> None]
               ELSE [st |-> "ok",
                     val |-> Some(DiskRead(disk, page.offset + entry.offset, entry.value_len))]

lookup_value(page, key, disk) == lookup_value_alloc(page, key, disk)

\* delete_value without the persist_header that ends it
delete_value_unpersisted(page, key, disk) ==
  IF FindEntry(page, key) = 0
  THEN [page |-> page, disk |-> disk, removed |-> FALSE]
  ELSE [page |-> [page EXCEPT !.keys = VecRemove(@, FindEntry(page, key) - 1)],
        disk |-> disk, removed |-> TRUE]

\* LeafPage::delete_value: [page, disk, removed].
LeafPage_delete_value(page, key, disk) ==
  LET i == FindEntry(page, key)
  IN  IF page.keys = <<>> \/ i = 0
      THEN [page |-> page, disk |-> disk, removed |-> FALSE]
      ELSE LET p == [page EXCEPT !.keys = VecRemove(@, i - 1)]
           IN  [page |-> p, disk |-> persist_header(p, disk), removed |-> TRUE]

\* LeafPage::quick_insert with Some(end_offset): [db, page].
quick_insert(page, key, data, db, end_offset) ==
  IF db.st # "ok" THEN [db |-> db, page |-> page]
  ELSE IF end_offset < Len(data) THEN [db |-> Fail(db, "panic"), page |-> page]
  ELSE
    LET entry == [key |-> key, offset |-> end_offset - Len(data), value_len |-> Len(data)]
        disk1 == DiskWrite(db.disk, page.offset + entry.offset, data)
        bs == binary_search([i \in 1..Len(page.keys) |-> page.keys[i].key], key)
    IN  IF bs.found THEN [db |-> Fail([db EXCEPT !.disk = disk1], "panic"), page |-> page]
        ELSE LET p == [page EXCEPT !.keys = VecInsert(@, bs.idx, entry)]
             IN  [db |-> [db EXCEPT !.disk = persist_header(p, disk1)], page |-> p]

RECURSIVE LeafPage_upsert_value(_, _, _, _)
RECURSIVE defragment_loop(_, _, _)

\* defragment, after the pairs were read: clear the directory and upsert
\* every pair again.
defragment_pairs(page, reads, db) ==
  IF \E i \in 1..Len(reads) : reads[i].st # "ok"
  THEN [db |-> Fail(db, "err"), page |-> page]
  ELSE defragment_loop([page EXCEPT !.keys = <<>>],
                       [i \in 1..Len(reads) |->
                          [key |-> page.keys[i].key, value |-> reads[i].val[1]]],
                       db)

\* defragment that leaves the page as it is
defragment_kept(page, db) == [db |-> db, page |-> page]

\* LeafPage::defragment: [db, page].
defragment(page, db) ==
  IF db.st # "ok" THEN [db |-> db, page |-> page]
  ELSE defragment_pairs(page,
         [i \in 1..Len(page.keys) |-> lookup_value_alloc(page, page.keys[i].key, db.disk)],
         db)

defragment_next(r, pairs) == defragment_loop(r.page, Tail(pairs), r.db)

defragment_loop(page, pairs, db) ==
  IF pairs = <<>> \/ db.st # "ok" THEN [db |-> db, page |-> page]
  ELSE defragment_next(LeafPage_upsert_value(page, pairs[1].key, pairs[1].value, db), pairs)

\* upsert_value that stops after the delete_value of the old entry
upsert_dropping_value(d, key, data, db) ==
  [db |-> [db EXCEPT !.disk = d.disk], page |-> d.page]

\* upsert_value, the key already present: delete_value, then upsert again.
upsert_after_delete(d, key, data, db) ==
  LeafPage_upsert_value(d.page, key, data, [db EXCEPT !.disk = d.disk])

\* end_offset of upsert_value: the lowest blob, or the end of the page
end_of_free_region(page, page_size) ==
  IF page.keys = <<>> THEN page_size
  ELSE SetMin({page.keys[i].offset : i \in 1..Len(page.keys)})

\* the test of upsert_value for running defragment
free_region_too_small(page, data, page_size) ==
  \/ LeafPage_header_len(page) + size_of_entry > end_of_free_region(page, page_size)
  \/ end_of_free_region(page, page_size) - (LeafPage_header_len(page) + size_of_entry)
       < Len(data)

\* upsert_value, the free region too small: defragment, then upsert again.
\* When the defragmented page passes can_accommodate and its free region is
\* still too small, the second call defragments a page that is already
\* compact and calls upsert_value a third time with the same page, and so on
\* until the stack is exhausted.
upsert_after_defragment(f, key, data) ==
  IF /\ f.db.st = "ok"
     /\ FindEntry(f.page, key) = 0
     /\ ~LeafPage_can_accommodate_overflows(f.page, block_size(f.db.meta))
     /\ LeafPage_can_accommodate(f.page, Len(data), block_size(f.db.meta))
     /\ free_region_too_small(f.page, data, block_size(f.db.meta))
  THEN [db |-> Fail(f.db, "overflow"), page |-> f.page]
  ELSE LeafPage_upsert_value(f.page, key, data, f.db)

\* upsert_value that never defragments
upsert_place_fragmented(page, key, data, db, end_offset, start_offset) ==
  quick_insert(page, key, data, db, end_offset)

\* upsert_value from `let end_offset` on.
upsert_place(page, key, data, db, end_offset, start_offset) ==
  IF start_offset > end_offset \/ end_offset - start_offset < Len(data)
  THEN upsert_after_defragment(defragment(page, db), key, data)
  ELSE quick_insert(page, key, data, db, end_offset)

\* LeafPage::upsert_value: [db, page].
LeafPage_upsert_value(page, key, data, db) ==
  IF db.st # "ok" THEN [db |-> db, page |-> page]
  ELSE IF FindEntry(page, key) # 0
  THEN upsert_after_delete(LeafPage_delete_value(page, key, db.disk), key, data, db)
  ELSE IF LeafPage_can_accommodate_overflows(page, block_size(db.meta))
          \/ ~LeafPage_can_accommodate(page, Len(data), block_size(db.meta))
  THEN [db |-> Fail(db, "panic"), page |-> page]
  ELSE upsert_place(page, key, data, db,
         IF page.keys = <<>> THEN block_size(db.meta)
         ELSE SetMin({page.keys[i].offset : i \in 1..Len(page.keys)}),
         LeafPage_header_len(page) + size_of_entry)

\* LeafPage::init that zeroes the block and writes no tag
LeafPage_init_at_untagged(a, page_size) ==
  [db |-> Database_write(a.db, a.val, Zeros(page_size)),
   page |-> [kind |-> "Leaf", offset |-> a.val, keys |-> <<>>]]

\* LeafPage::init after allocate_block returned `a`.
LeafPage_init_at(a, page_size) ==
  [db |-> Database_write(a.db, a.val, <<LEAF_TAG>> \o Zeros(page_size - 1)),
   page |-> [kind |-> "Leaf", offset |-> a.val, keys |-> <<>>]]

\* LeafPage::init: [db, page].
LeafPage_init(db) ==
  IF db.st # "ok" THEN [db |-> db, page |-> <<>>]
  ELSE LeafPage_init_at(allocate_block(db), block_size(db.meta))

RECURSIVE split_move(_, _, _, _)
split_move_next(self, entries, r) == split_move(self, Tail(entries), r.page, r.db)

\* one turn of the loop of split_in_half, the value `v` looked up.
split_move_value(self, entries, right, db, v) ==
  IF v.st # "ok" THEN [db |-> Fail(db, v.st), page |-> right]
  ELSE IF v.val = None THEN [db |-> Fail(db, "panic"), page |-> right]
  ELSE split_move_next(self, entries,
         LeafPage_upsert_value(right, entries[1].key, v.val[1], db))

\* the loop of split_in_half over self.keys[split_idx..]: [db, page] (the
\* new right sibling).
split_move(self, entries, right, db) ==
  IF entries = <<>> \/ db.st # "ok" THEN [db |-> db, page |-> right]
  ELSE split_move_value(self, entries, right, db,
                        lookup_value(self, entries[1].key, db.disk))

\* split_in_half that truncates self.keys in memory only
split_truncate_unpersisted(page, split_idx, m) ==
  [db |-> m.db, page |-> [page EXCEPT !.keys = SubSeq(@, 1, split_idx)],
   right |-> m.page]

\* split_in_half after the loop: truncate and persist the header.
split_truncate(page, split_idx, m) ==
  IF m.db.st # "ok" THEN [db |-> m.db, page |-> page, right |-> m.page]
  ELSE [db |-> [m.db EXCEPT !.disk =
                  persist_header([page EXCEPT !.keys = SubSeq(@, 1, split_idx)], m.db.disk)],
        page |-> [page EXCEPT !.keys = SubSeq(@, 1, split_idx)],
        right |-> m.page]

split_into(page, split_idx, n) ==
  split_truncate(page, split_idx,
    split_move(page, SubSeq(page.keys, split_idx + 1, Len(page.keys)), n.page, n.db))

\* split_in_half that splits at the upper middle
split_in_half_upper_middle(page, db) ==
  IF db.st # "ok" THEN [db |-> db, page |-> page, right |-> <<>>]
  ELSE split_into(page, (Len(page.keys) + 1) \div 2, LeafPage_init(db))

\* LeafPage::split_in_half: [db, page (self), right].
LeafPage_split_in_half(page, db) ==
  IF db.st # "ok" THEN [db |-> db, page |-> page, right |-> <<>>]
  ELSE split_into(page, Len(page.keys) \div 2, LeafPage_init(db))

\* ----------------------------------------------------------- internal page
InternalPage_header_size == U8_SIZE + U64_SIZE

\* max_children_capacity that forgets the page header
max_children_capacity_headerless(page_size) ==
  (page_size + KEY_SIZE) \div (U64_SIZE + KEY_SIZE)

max_children_capacity(page_size) ==
  (page_size + KEY_SIZE - InternalPage_header_size) \div (U64_SIZE + KEY_SIZE)

is_full_above_capacity(page, page_size) ==
  Len(page.pointers) > max_children_capacity(page_size)

is_full(page, page_size) == Len(page.pointers) >= max_children_capacity(page_size)

\* Page::can_accommodate calls InternalPage::can_accommodate(page_size), which
\* the sources do not contain; an internal page accepts an insert below it
\* while it is not full (spec 4.2: "is_full means pointers.len() >= F").
InternalPage_can_accommodate(page, page_size) == ~is_full(page, page_size)

\* every element written big-endian in w bytes, one after the other
EncodeInts(xs, w) ==
  [i \in 1..(Len(xs) * w) |-> to_be_bytes(xs[((i - 1) \div w) + 1], w)[((i - 1) % w) + 1]]

\* InternalPage::persist: db.
InternalPage_persist(page, db) ==
  IF db.st # "ok" THEN db
  ELSE IF max_children_capacity(block_size(db.meta)) < Len(page.pointers)
  THEN Fail(db, "panic")
  ELSE
    LET keys_len == Len(page.keys)
        disk1 == DiskWrite(db.disk, page.offset,
                           <<INTERNAL_TAG>> \o to_be_bytes(keys_len, U64_SIZE))
    IN  IF Len(page.pointers) # keys_len + 1
        THEN Fail([db EXCEPT !.disk = disk1], "panic")
        ELSE [db EXCEPT !.disk =
                DiskWrite(disk1, page.offset + InternalPage_header_size,
                          EncodeInts(page.keys, KEY_SIZE)
                            \o EncodeInts(page.pointers, U64_SIZE))]

\* InternalPage::load at `offset`: [st, page].
InternalPage_load(disk, offset) ==
  IF ~CanRead(disk, offset, U8_SIZE) THEN [st |-> "err", page |-> <<>>]
  ELSE IF disk[offset + 1] # INTERNAL_TAG THEN [st |-> "panic", page |-> <<>>]
  ELSE IF ~CanRead(disk, offset + 1, U64_SIZE) THEN [st |-> "err", page |-> <<>>]
  ELSE
    LET keys_len == from_be_bytes(DiskRead(disk, offset + 1, U64_SIZE))
        kbase == offset + InternalPage_header_size
        pbase == kbase + KEY_SIZE * keys_len
    IN  IF ~CanRead(disk, kbase, KEY_SIZE * keys_len + U64_SIZE * (keys_len + 1))
        THEN [st |-> "err", page |-> <<>>]
        ELSE [st |-> "ok",
              page |-> [kind |-> "Internal", offset |-> offset,
                        keys |-> [i \in 1..keys_len |->
                           from_be_bytes(DiskRead(disk, kbase + KEY_SIZE * (i - 1), KEY_SIZE))],
                        pointers |-> [i \in 1..(keys_len + 1) |->
                           from_be_bytes(DiskRead(disk, pbase + U64_SIZE * (i - 1), U64_SIZE))]]]

\* the free function safe_insert on a Vec: push at the end, Vec::insert
\* otherwise (which panics beyond the end).
vec_safe_insert_panics(vec, idx) == idx > Len(vec)
vec_safe_insert(vec, idx, val) ==
  IF idx = Len(vec) THEN Append(vec, val) ELSE VecInsert(vec, idx, val)

\* InternalPage::safe_insert: [db, page].
InternalPage_safe_insert(page, i, key, pointer, db) ==
  IF db.st # "ok" THEN [db |-> db, page |-> page]
  ELSE IF vec_safe_insert_panics(page.keys, i) \/ vec_safe_insert_panics(page.pointers, i + 1)
  THEN [db |-> Fail(db, "panic"), page |-> page]
  ELSE LET p == [page EXCEPT !.keys = vec_safe_insert(@, i, key),
                             !.pointers = vec_safe_insert(@, i + 1, pointer)]
       IN  [db |-> InternalPage_persist(p, db), page |-> p]

\* safe_remove that removes the key and leaves its pointer
safe_remove_key_only(page, i, db) ==
  IF db.st # "ok" THEN [db |-> db, page |-> page]
  ELSE IF i >= Len(page.keys) \/ i + 1 >= Len(page.pointers)
  THEN [db |-> Fail(db, "panic"), page |-> page]
  ELSE [db |-> InternalPage_persist([page EXCEPT !.keys = VecRemove(@, i)], db),
        page |-> [page EXCEPT !.keys = VecRemove(@, i)]]

\* InternalPage::safe_remove: [db, page].
safe_remove(page, i, db) ==
  IF db.st # "ok" THEN [db |-> db, page |-> page]
  ELSE IF i >= Len(page.keys) \/ i + 1 >= Len(page.pointers)
  THEN [db |-> Fail(db, "panic"), page |-> page]
  ELSE LET p == [page EXCEPT !.keys = VecRemove(@, i),
                             !.pointers = VecRemove(@, i + 1)]
       IN  [db |-> InternalPage_persist(p, db), page |-> p]

InternalPage_init_at(a, pointer) ==
  [db |-> InternalPage_persist([kind |-> "Internal", offset |-> a.val,
                                keys |-> <<>>, pointers |-> <<pointer>>], a.db),
   page |-> [kind |-> "Internal", offset |-> a.val,
             keys |-> <<>>, pointers |-> <<pointer>>]]

\* InternalPage::init: [db, page].
InternalPage_init(db, pointer) ==
  IF db.st # "ok" THEN [db |-> db, page |-> <<>>]
  ELSE InternalPage_init_at(allocate_block(db), pointer)

\* split_in_half that returns the first key left in self, not the popped one
InternalPage_split_at_first_key(page, a, right, lkeys, lptrs) ==
  IF lkeys = <<>>
  THEN [db |-> Fail(a.db, "panic"), page |-> page, right |-> right, key |-> 0]
  ELSE [db |-> InternalPage_persist(
                 [page EXCEPT !.keys = SubSeq(lkeys, 1, Len(lkeys) - 1), !.pointers = lptrs],
                 InternalPage_persist(right, a.db)),
        page |-> [page EXCEPT !.keys = SubSeq(lkeys, 1, Len(lkeys) - 1), !.pointers = lptrs],
        right |-> right,
        key |-> lkeys[1]]

\* split_in_half after allocate_block returned `a`: `right` is the new
\* sibling, lkeys and lptrs what split_off left in self.
InternalPage_split_at(page, a, right, lkeys, lptrs) ==
  IF lkeys = <<>>
  THEN [db |-> Fail(a.db, "panic"), page |-> page, right |-> right, key |-> 0]
  ELSE [db |-> InternalPage_persist(
                 [page EXCEPT !.keys = SubSeq(lkeys, 1, Len(lkeys) - 1), !.pointers = lptrs],
                 InternalPage_persist(right, a.db)),
        page |-> [page EXCEPT !.keys = SubSeq(lkeys, 1, Len(lkeys) - 1), !.pointers = lptrs],
        right |-> right,
        key |-> lkeys[Len(lkeys)]]

InternalPage_split_alloc(page, split_idx, a) ==
  InternalPage_split_at(page, a,
    [kind |-> "Internal", offset |-> a.val,
     keys |-> SubSeq(page.keys, split_idx + 1, Len(page.keys)),
     pointers |-> SubSeq(page.pointers, split_idx + 1, Len(page.pointers))],
    SubSeq(page.keys, 1, split_idx),
    SubSeq(page.pointers, 1, split_idx))

\* InternalPage::split_in_half: [db, page (self), right, key].
InternalPage_split_in_half(page, db) ==
  IF db.st # "ok" THEN [db |-> db, page |-> page, right |-> <<>>, key |-> 0]
  ELSE InternalPage_split_alloc(page, Len(page.keys) \div 2, allocate_block(db))

\* -------------------------------------------------------------------- page
\* Page::load that takes a page past the end of the device for an empty leaf
Page_load_past_end_empty(offset, db) ==
  IF db.st # "ok" THEN [st |-> db.st, page |-> <<>>]
  ELSE IF ~CanRead(db.disk, offset, U8_SIZE + U64_SIZE)
  THEN [st |-> "ok", page |-> [kind |-> "Leaf", offset |-> offset, keys |-> <<>>]]
  ELSE IF db.disk[offset + 1] = LEAF_TAG THEN LeafPage_read_header(db.disk, offset)
  ELSE IF db.disk[offset + 1] = INTERNAL_TAG THEN InternalPage_load(db.disk, offset)
  ELSE [st |-> "panic", page |-> <<>>]

\* Page::load: [st, page].
Page_load(offset, db) ==
  IF db.st # "ok" THEN [st |-> db.st, page |-> <<>>]
  ELSE IF ~CanRead(db.disk, offset, U8_SIZE) THEN [st |-> "err", page |-> <<>>]
  ELSE LET tag == db.disk[offset + 1]
       IN  IF tag = LEAF_TAG THEN LeafPage_read_header(db.disk, offset)
           ELSE IF tag = INTERNAL_TAG THEN InternalPage_load(db.disk, offset)
           ELSE [st |-> "panic", page |-> <<>>]

Page_can_accommodate_overflows(page, page_size) ==
  page.kind = "Leaf" /\ LeafPage_can_accommodate_overflows(page, page_size)

Page_can_accommodate(page, data_len, page_size) ==
  IF page.kind = "Internal" THEN InternalPage_can_accommodate(page, page_size)
  ELSE LeafPage_can_accommodate(page, data_len, page_size)

RECURSIVE InternalPage_delete_value(_, _, _)

\* delete_value, the child a leaf, after leaf.delete_value returned `d`.
delete_in_leaf(page, i, d, db) ==
  IF d.page.keys = <<>>
  THEN safe_remove(page, IF i = 0 THEN 0 ELSE i - 1, [db EXCEPT !.disk = d.disk])
  ELSE [db |-> [db EXCEPT !.disk = d.disk], page |-> page]

\* delete_value, the child internal, after the recursive call returned `r`.
delete_in_internal(page, i, r) ==
  IF r.db.st # "ok" THEN [db |-> r.db, page |-> page]
  ELSE IF r.page.keys = <<>>
  THEN [db |-> InternalPage_persist([page EXCEPT !.pointers[i + 1] = r.page.pointers[1]], r.db),
        page |-> [page EXCEPT !.pointers[i + 1] = r.page.pointers[1]]]
  ELSE [db |-> r.db, page |-> page]

delete_in_child(page, key, db, i, child) ==
  IF child.st # "ok" THEN [db |-> Fail(db, child.st), page |-> page]
  ELSE IF child.page.kind = "Leaf"
  THEN delete_in_leaf(page, i, LeafPage_delete_value(child.page, key, db.disk), db)
  ELSE delete_in_internal(page, i, InternalPage_delete_value(child.page, key, db))

delete_at(page, key, db, i) ==
  IF i >= Len(page.pointers) THEN [db |-> Fail(db, "panic"), page |-> page]
  ELSE delete_in_child(page, key, db, i, Page_load(page.pointers[i + 1], db))

\* InternalPage::delete_value: [db, page].
InternalPage_delete_value(page, key, db) ==
  IF db.st # "ok" THEN [db |-> db, page |-> page]
  ELSE delete_at(page, key, db, binary_search(page.keys, key).idx)

\* ------------------------------------------------------------------- btree
BTree_init_root(r) == [db |-> r.db, root |-> IF r.db.st = "ok" THEN r.page.offset ELSE 0]

\* BTree::init: [db, root].
BTree_init(db) == BTree_init_root(LeafPage_init(db))

split_child_insert(n, s) == [db |-> n.db, node |-> n.page, left |-> s.page, right |-> s.right]

\* btree_split_child with the first key of the right sibling as separator
split_child_leaf_min_right(node, insert_idx, s) ==
  IF s.db.st # "ok" THEN [db |-> s.db, node |-> node, left |-> s.page, right |-> s.right]
  ELSE IF s.right.keys = <<>>
  THEN [db |-> Fail(s.db, "panic"), node |-> node, left |-> s.page, right |-> s.right]
  ELSE split_child_insert(
         InternalPage_safe_insert(node, insert_idx, s.right.keys[1].key,
                                  s.right.offset, s.db), s)

\* btree_split_child, Page::Leaf arm, after split_in_half returned `s`.
split_child_leaf(node, insert_idx, s) ==
  IF s.db.st # "ok" THEN [db |-> s.db, node |-> node, left |-> s.page, right |-> s.right]
  ELSE IF s.page.keys = <<>>
  THEN [db |-> Fail(s.db, "panic"), node |-> node, left |-> s.page, right |-> s.right]
  ELSE split_child_insert(
         InternalPage_safe_insert(node, insert_idx, s.page.keys[Len(s.page.keys)].key,
                                  s.right.offset, s.db), s)

\* btree_split_child, Page::Internal arm, after split_in_half returned `s`.
split_child_internal(node, insert_idx, s) ==
  IF s.db.st # "ok" THEN [db |-> s.db, node |-> node, left |-> s.page, right |-> s.right]
  ELSE split_child_insert(
         InternalPage_safe_insert(node, insert_idx, s.key, s.right.offset, s.db), s)

split_child_loaded(node, insert_idx, db, left_sibling) ==
  IF left_sibling.st # "ok"
  THEN [db |-> Fail(db, left_sibling.st), node |-> node, left |-> <<>>, right |-> <<>>]
  ELSE IF left_sibling.page.kind = "Leaf"
  THEN split_child_leaf(node, insert_idx, LeafPage_split_in_half(left_sibling.page, db))
  ELSE split_child_internal(node, insert_idx, InternalPage_split_in_half(left_sibling.page, db))

\* BTree::btree_split_child: [db, node, left, right].
btree_split_child(node, insert_idx, db) ==
  IF db.st # "ok" THEN [db |-> db, node |-> node, left |-> <<>>, right |-> <<>>]
  ELSE IF insert_idx >= Len(node.pointers)
  THEN [db |-> Fail(db, "panic"), node |-> node, left |-> <<>>, right |-> <<>>]
  ELSE split_child_loaded(node, insert_idx, db, Page_load(node.pointers[insert_idx + 1], db))

RECURSIVE btree_insert_nonfull(_, _, _, _)

\* btree_insert_nonfull after btree_split_child returned `s`: the choice
\* between the two children.
insert_after_split(key, data, i, s) ==
  IF s.db.st # "ok" THEN s.db
  ELSE IF i >= Len(s.node.keys) THEN Fail(s.db, "panic")
  ELSE btree_insert_nonfull(IF key > s.node.keys[i + 1] THEN s.right ELSE s.left,
                            key, data, s.db)

insert_into_child(page, key, data, db, i, child) ==
  IF child.st # "ok" THEN Fail(db, child.st)
  ELSE IF Page_can_accommodate_overflows(child.page, block_size(db.meta))
  THEN Fail(db, "panic")
  ELSE IF Page_can_accommodate(child.page, Len(data), block_size(db.meta))
  THEN btree_insert_nonfull(child.page, key, data, db)
  ELSE insert_after_split(key, data, i, btree_split_child(page, i, db))

insert_at(page, key, data, db, i) ==
  IF i >= Len(page.pointers) THEN Fail(db, "panic")
  ELSE insert_into_child(page, key, data, db, i, Page_load(page.pointers[i + 1], db))

\* BTree::btree_insert_nonfull: db.
btree_insert_nonfull(page, key, data, db) ==
  IF db.st # "ok" THEN db
  ELSE IF page.kind = "Leaf" THEN LeafPage_upsert_value(page, key, data, db).db
  ELSE insert_at(page, key, data, db, binary_search(page.keys, key).idx)

insert_new_root(key, data, new_root, s) ==
  [db |-> btree_insert_nonfull(s.node, key, data, s.db), root |-> new_root]

\* BTree::insert, the root full, after InternalPage::init returned `page`.
insert_root_full(root, key, data, page) ==
  IF page.db.st # "ok" THEN [db |-> page.db, root |-> root]
  ELSE insert_new_root(key, data, page.page.offset, btree_split_child(page.page, 0, page.db))

insert_root_loaded(root, key, data, db, r) ==
  IF r.st # "ok" THEN [db |-> Fail(db, r.st), root |-> root]
  ELSE IF Page_can_accommodate_overflows(r.page, block_size(db.meta))
  THEN [db |-> Fail(db, "panic"), root |-> root]
  ELSE IF Page_can_accommodate(r.page, Len(data), block_size(db.meta))
  THEN [db |-> btree_insert_nonfull(r.page, key, data, db), root |-> root]
  ELSE insert_root_full(root, key, data, InternalPage_init(db, root))

\* BTree::insert: [db, root] (root is self.root after the call).
BTree_insert(root, key, data, db) ==
  IF db.st # "ok" THEN [db |-> db, root |-> root]
  ELSE insert_root_loaded(root, key, data, db, Page_load(root, db))

RECURSIVE btree_search(_, _, _)

search_child(key, db, child) ==
  IF child.st # "ok" THEN [st |-> child.st, val |-> None]
  ELSE btree_search(child.page, key, db)

search_at(page, key, db, i) ==
  IF i >= Len(page.pointers) THEN [st |-> "panic", val |-> None]
  ELSE search_child(key, db, Page_load(page.pointers[i + 1], db))

\* BTree::btree_search: [st, val].
btree_search(page, key, db) ==
  IF page.kind = "Internal" THEN search_at(page, key, db, binary_search(page.keys, key).idx)
  ELSE lookup_value_alloc(page, key, db.disk)

\* BTree::lookup: [st, val].
BTree_lookup(root, key, db) == search_child(key, db, Page_load(root, db))

\* BTree::delete, Page::Internal arm, after delete_value returned `d`.
delete_root_internal_kept(root, d) == [db |-> d.db, root |-> root]

delete_root_internal(root, d) ==
  IF d.db.st # "ok" THEN [db |-> d.db, root |-> root]
  ELSE IF d.page.keys = <<>>
  THEN IF d.page.pointers = <<>> THEN [db |-> Fail(d.db, "panic"), root |-> root]
       ELSE [db |-> d.db, root |-> d.page.pointers[1]]
  ELSE [db |-> d.db, root |-> root]

delete_root_loaded(root, key, db, r) ==
  IF r.st # "ok" THEN [db |-> Fail(db, r.st), root |-> root]
  ELSE IF r.page.kind = "Leaf"
  THEN [db |-> [db EXCEPT !.disk = LeafPage_delete_value(r.page, key, db.disk).disk],
        root |-> root]
  ELSE delete_root_internal(root, InternalPage_delete_value(r.page, key, db))

\* BTree::delete: [db, root].
BTree_delete(root, key, db) ==
  IF db.st # "ok" THEN [db |-> db, root |-> root]
  ELSE delete_root_loaded(root, key, db, Page_load(root, db))

RECURSIVE leaf_order(_, _)
RECURSIVE leaf_order_cat(_, _)

\* the leaves below the pointers `ptrs`, left to right: [st, val].
leaf_order_join(first, rest) ==
  IF first.st # "ok" THEN first
  ELSE IF rest.st # "ok" THEN rest
  ELSE [st |-> "ok", val |-> first.val \o rest.val]

leaf_order_cat(ptrs, db) ==
  IF ptrs = <<>> THEN [st |-> "ok", val |-> <<>>]
  ELSE leaf_order_join(leaf_order(ptrs[1], db), leaf_order_cat(Tail(ptrs), db))

leaf_order_page(p, db) ==
  IF p.st # "ok" THEN [st |-> p.st, val |-> <<>>]
  ELSE IF p.page.kind = "Leaf" THEN [st |-> "ok", val |-> <<p.page>>]
  ELSE leaf_order_cat(p.page.pointers, db)

\* The leaves reachable from the page at `offset` through the pointers of
\* internal pages, left to right: [st, val].
leaf_order(offset, db) == leaf_order_page(Page_load(offset, db), db)

RECURSIVE leaf_keys(_)
leaf_keys(leaves) ==
  IF leaves = <<>> THEN <<>>
  ELSE [j \in 1..Len(leaves[1].keys) |-> leaves[1].keys[j].key] \o leaf_keys(Tail(leaves))

\* The keys stored in the reachable leaves, left to right.
ReachableKeys(root, d) == leaf_keys(leaf_order(root, d).val)

next_leaf_in(o, leaf_idx) ==
  IF o.st # "ok" THEN [st |-> o.st, val |-> None]
  ELSE IF leaf_idx < Len(o.val) THEN [st |-> "ok", val |-> Some(o.val[leaf_idx + 1])]
  ELSE [st |-> "ok", val |-> None]

\* LeafPage::next_leaf is called by KeyIter::next but is not in the sources;
\* spec 4.3 (b): the iterator walks the tree and moves on to the following
\* leaf when a leaf is exhausted.  leaf_idx is the position of the current
\* leaf in that walk: [st, val].
next_leaf(root, leaf_idx, db) == next_leaf_in(leaf_order(root, db), leaf_idx)

RECURSIVE leftmost_leaf(_, _)
leftmost_child(p, db) == IF p.st # "ok" THEN p ELSE leftmost_leaf(p.page, db)

\* the descent loop of BTree::keys: [st, page].
leftmost_leaf(page, db) ==
  IF page.kind = "Leaf" THEN [st |-> "ok", page |-> page]
  ELSE IF page.pointers = <<>> THEN [st |-> "panic", page |-> <<>>]
  ELSE leftmost_child(Page_load(page.pointers[1], db), db)

RECURSIVE KeyIter_collect(_, _, _, _)

\* KeyIter::next at the end of a page, after next_leaf returned `n`.
KeyIter_next_page(it, root, db, acc, n) ==
  IF n.st # "ok" THEN [st |-> n.st, keys |-> acc]
  ELSE IF n.val = None THEN [st |-> "ok", keys |-> acc]
  ELSE IF n.val[1].keys = <<>> THEN [st |-> "panic", keys |-> acc]
  ELSE KeyIter_collect([leaf_page |-> n.val[1], current_key_offset |-> 1,
                        leaf_idx |-> it.leaf_idx + 1],
                       root, db, Append(acc, n.val[1].keys[1].key))

\* KeyIter::next until it returns None, an Err or panics: [st, keys].
KeyIter_collect(it, root, db, acc) ==
  IF it.current_key_offset = Len(it.leaf_page.keys)
  THEN KeyIter_next_page(it, root, db, acc, next_leaf(root, it.leaf_idx, db))
  ELSE KeyIter_collect([it EXCEPT !.current_key_offset = @ + 1], root, db,
                       Append(acc, it.leaf_page.keys[it.current_key_offset + 1].key))

keys_from(l, root, db) ==
  IF l.st # "ok" THEN [st |-> l.st, keys |-> <<>>]
  ELSE KeyIter_collect([leaf_page |-> l.page, current_key_offset |-> 0, leaf_idx |-> 1],
                       root, db, <<>>)

keys_root(page, root, db) ==
  IF page.st # "ok" THEN [st |-> page.st, keys |-> <<>>]
  ELSE keys_from(leftmost_leaf(page.page, db), root, db)

\* BTree::keys, collected: [st, keys].
BTree_keys(root, db) == keys_root(Page_load(root, db), root, db)

\* ------------------------------------------------------------- nested tree
\* from_data that keeps the 8 offset bytes in the inline value
from_data_unsplit(d) ==
  [child_offset |-> from_be_bytes(SubSeq(d, 1, U64_SIZE)),
   data |-> IF Len(d) > U64_SIZE THEN Some(d) ELSE None]

TreeEntryValue_split(d) ==
  [child_offset |-> from_be_bytes(SubSeq(d, 1, U64_SIZE)),
   data |-> IF Len(d) > U64_SIZE THEN Some(SubSeq(d, U64_SIZE + 1, Len(d))) ELSE None]

TreeEntryValue_from_data(data) ==
  TreeEntryValue_split(
    IF Len(data) < U64_SIZE THEN data \o Zeros(U64_SIZE - Len(data)) ELSE data)

TreeEntryValue_new == [child_offset |-> 0, data |-> None]

into_buf(entry) ==
  to_be_bytes(entry.child_offset, U64_SIZE)
    \o (IF entry.data # None THEN entry.data[1] ELSE <<>>)

\* the entry set_value and insert_child_tree start from
existing_entry(l) ==
  IF l.val # None THEN TreeEntryValue_from_data(l.val[1]) ELSE TreeEntryValue_new

\* lookup that sets the root tree in memory and leaves the header on disk
lookup_init_unpersisted(t) ==
  IF t.db.st # "ok" THEN [db |-> t.db, offset |-> 0]
  ELSE [db |-> [t.db EXCEPT !.meta = [t.db.meta EXCEPT !.root_btree_offset = t.root]],
        offset |-> t.root]

Database_lookup_init(t) ==
  IF t.db.st # "ok" THEN [db |-> t.db, offset |-> 0]
  ELSE [db |-> [t.db EXCEPT
                  !.meta = [t.db.meta EXCEPT !.root_btree_offset = t.root],
                  !.disk = DatabaseMeta_persist(
                             [t.db.meta EXCEPT !.root_btree_offset = t.root], t.db.disk)],
        offset |-> t.root]

\* lookup that initialises a root tree whatever the header says
lookup_always_init(db) ==
  IF db.st # "ok" THEN [db |-> db, offset |-> 0]
  ELSE Database_lookup_init(BTree_init(db))

\* Database::lookup: [db, offset] (the TreeEntry of the root tree).
Database_lookup(db) ==
  IF db.st # "ok" THEN [db |-> db, offset |-> 0]
  ELSE IF db.meta.root_btree_offset = 0 THEN Database_lookup_init(BTree_init(db))
  ELSE [db |-> db, offset |-> db.meta.root_btree_offset]

child_tree_inserted(ins, child_root) ==
  [db |-> ins.db, offset |-> child_root, tree |-> ins.root]

child_tree_entry(offset, key, child, existing_value) ==
  IF existing_value.st # "ok"
  THEN [db |-> Fail(child.db, existing_value.st), offset |-> 0, tree |-> offset]
  ELSE child_tree_inserted(
         BTree_insert(offset, key,
           into_buf([existing_entry(existing_value) EXCEPT !.child_offset = child.root]),
           child.db),
         child.root)

child_tree_init(offset, key, child) ==
  IF child.db.st # "ok" THEN [db |-> child.db, offset |-> 0, tree |-> offset]
  ELSE child_tree_entry(offset, key, child, BTree_lookup(offset, key, child.db))

\* TreeEntry::insert_child_tree: [db, offset, tree] (offset is the child tree's
\* root, tree is the root held by the local `tree` when the call returns).
insert_child_tree(offset, key, db) ==
  IF db.st # "ok" THEN [db |-> db, offset |-> 0, tree |-> offset]
  ELSE child_tree_init(offset, key, BTree_init(db))

get_found(offset, key, db, l) ==
  IF l.st # "ok" THEN [db |-> Fail(db, l.st), offset |-> 0, tree |-> offset]
  ELSE IF l.val # None /\ TreeEntryValue_from_data(l.val[1]).child_offset # 0
  THEN [db |-> db, offset |-> TreeEntryValue_from_data(l.val[1]).child_offset,
        tree |-> offset]
  ELSE insert_child_tree(offset, key, db)

\* TreeEntry::get: [db, offset, tree] (offset is the returned TreeEntry, tree
\* the root held by the local `tree` when the call returns).
TreeEntry_get(offset, key, db) ==
  IF db.st # "ok" THEN [db |-> db, offset |-> 0, tree |-> offset]
  ELSE get_found(offset, key, db, BTree_lookup(offset, key, db))

set_value_inserted(ins) == [db |-> ins.db, tree |-> ins.root]

set_value_found(offset, key, data, db, l) ==
  IF l.st # "ok" THEN [db |-> Fail(db, l.st), tree |-> offset]
  ELSE set_value_inserted(
         BTree_insert(offset, key,
                      into_buf([existing_entry(l) EXCEPT !.data = Some(data)]), db))

\* TreeEntry::set_value: [db, tree] (tree is the root held by the local `tree`
\* when the call returns).
TreeEntry_set_value(offset, key, data, db) ==
  IF db.st # "ok" THEN [db |-> db, tree |-> offset]
  ELSE set_value_found(offset, key, data, db, BTree_lookup(offset, key, db))

value_found(l) ==
  IF l.st # "ok" THEN l
  ELSE IF l.val = None THEN l
  ELSE [st |-> "ok", val |-> TreeEntryValue_from_data(l.val[1]).data]

\* TreeEntry::value: [st, val].
TreeEntry_value(offset, key, db) == value_found(BTree_lookup(offset, key, db))

\* ------------------------------------------------------------------ state
VARIABLES db, tree, reference, last, nops, got
vars == <<db, tree, reference, last, nops, got>>

Keys == 1..MaxKey
\* The fuzzer draws values of 0 to 19 bytes.
EmptyValue == <<>>
ShortValue == <<1>>
LongValue == <<2, 2, 2, 2, 2, 2, 2, 2>>
Values == {EmptyValue, ShortValue, LongValue}

\* The fuzzer's main: Database::initialize on an empty Cursor, BTree::init,
\* an empty reference map.
Applied(r) == db' = r.db /\ tree' = r.root

Created(t) == db = t.db /\ tree = t.root

Init ==
  /\ Created(BTree_init(Database_initialize(<<>>)))
  /\ reference = [k \in {} |-> <<>>]
  /\ last = [op |-> "init", key |-> 0, data |-> <<>>, found |-> None]
  /\ nops = 0
  /\ got = <<>>

\* Instruction::Insert: tree.insert(key, data), reference.insert(key, data).
\* last.found is what lookup(key) returned before the call.
Insert(k, v) ==
  /\ db.st = "ok" /\ nops < MaxOps
  /\ Applied(BTree_insert(tree, k, v, db))
  /\ reference' = [x \in DOMAIN reference \cup {k} |-> IF x = k THEN v ELSE reference[x]]
  /\ last' = [op |-> "insert", key |-> k, data |-> v,
              found |-> BTree_lookup(tree, k, db).val]
  /\ nops' = nops + 1
  /\ UNCHANGED got

\* Instruction::Delete: tree.delete(key), reference.remove(key).
Delete(k) ==
  /\ db.st = "ok" /\ nops < MaxOps
  /\ Applied(BTree_delete(tree, k, db))
  /\ reference' = [x \in DOMAIN reference \ {k} |-> reference[x]]
  /\ last' = [op |-> "delete", key |-> k, data |-> <<>>,
              found |-> BTree_lookup(tree, k, db).val]
  /\ nops' = nops + 1
  /\ UNCHANGED got

Next ==
  \/ \E k \in Keys, v \in Values : Insert(k, v)
  \/ \E k \in Keys : Delete(k)

Spec == Init /\ [][Next]_vars

\* The unit test of btree.rs: keys 1, 2, ... are inserted in ascending order
\* with one value, and single inserts and deletes follow.  DeepKeys keys give
\* a root above internal pages; MaxDeepOps calls follow.
DeepKeys == 7
MaxDeepOps == 3

RECURSIVE Fill(_, _, _)
Fill(r, key, n) ==
  IF key > n \/ r.db.st # "ok" THEN r
  ELSE Fill(BTree_insert(r.root, key, LongValue, r.db), key + 1, n)

InitDeep ==
  /\ Created(Fill(BTree_init(Database_initialize(<<>>)), 1, DeepKeys))
  /\ reference = [k \in 1..DeepKeys |-> LongValue]
  /\ last = [op |-> "insert", key |-> DeepKeys, data |-> LongValue, found |-> None]
  /\ nops = MaxOps - MaxDeepOps
  /\ got = <<>>

NextDeep ==
  \/ \E k \in 1..DeepKeys, v \in Values : Insert(k, v)
  \/ \E k \in 1..DeepKeys : Delete(k)

SpecDeep == InitDeep /\ [][NextDeep]_vars

NoPanic == db.st = "ok"

\* validate of the fuzzer: every key of the reference map is looked up and
\* compared with the reference value.
Validate == \A k \in DOMAIN reference : BTree_lookup(tree, k, db).val = Some(reference[k])

RECURSIVE SortedSeq(_)
SortedSeq(S) == IF S = {} THEN <<>> ELSE <<SetMin(S)>> \o SortedSeq(S \ {SetMin(S)})

Count(seq, x) == Cardinality({i \in 1..Len(seq) : seq[i] = x})

Root(d, t) == Page_load(t, d).page

\* the tree has a root above internal pages
Deep == Root(db, tree).kind = "Internal"
        /\ \E i \in DOMAIN Root(db, tree).pointers :
              Root(db, Root(db, tree).pointers[i]).kind = "Internal"

\* ------------------------------------------------------ claims on one tree
\* C1: after every insert and delete, lookup(K) returns the value most
\* recently inserted for every key K that is live in the reference map.
C1_LookupMatchesReference == db.st = "ok" /\ Validate

\* C3: keys() ends without a panic and yields exactly the keys that are live
\* in the reference map, ascending, each once.
C3_KeysYieldLiveKeys ==
  BTree_keys(tree, db) = [st |-> "ok", keys |-> SortedSeq(DOMAIN reference)]

\* C4: delete(K) returns Ok and a lookup(K) right after it returns None,
\* whether K was in the tree or not.
C4_DeleteThenLookupNone ==
  last.op = "delete" =>
    /\ db.st = "ok"
    /\ BTree_lookup(tree, last.key, db) = [st |-> "ok", val |-> None]

\* a delete has removed a key that was stored in a tree with a root above
\* internal pages.
C4_Witness ==
  /\ last.op = "delete" /\ last.found # None
  /\ db.st = "ok" /\ Deep
  /\ BTree_lookup(tree, last.key, db).val = None

\* C5: a delete of a key that is not in the tree returns Ok and leaves the
\* root offset, the keys of keys() and the lookup of every key as they were.
C5_DeleteAbsentIsNoOp ==
  [][(last'.op = "delete" /\ BTree_lookup(tree, last'.key, db).val = None) =>
       /\ db'.st = "ok"
       /\ tree' = tree
       /\ BTree_keys(tree', db') = BTree_keys(tree, db)
       /\ \A k \in Keys \cup DOMAIN reference :
            BTree_lookup(tree', k, db') = BTree_lookup(tree, k, db)]_vars

MaxTreeKey == 2
MaxNavKey == 1
MaxDepth == 2
MaxTreeOps == 3
TreeKeys == 1..MaxTreeKey
NavKeys == 1..MaxNavKey
TreeValues == {<<>>, <<5>>, <<6, 7>>}
Paths(lo, hi) == UNION {[1..m -> NavKeys] : m \in lo..hi}

RECURSIVE NavFrom(_, _, _, _, _)
NavStep(path, offs, trees, g) ==
  NavFrom(g.offset, Tail(path), g.db, Append(offs, g.offset), Append(trees, g.tree))

NavFrom(offset, path, d, offs, trees) ==
  IF path = <<>> \/ d.st # "ok"
  THEN [db |-> d, offset |-> offset, offs |-> offs, trees |-> trees]
  ELSE NavStep(path, offs, trees, TreeEntry_get(offset, path[1], d))

NavRoot(path, r) == NavFrom(r.offset, path, r.db, <<r.offset>>, <<>>)

\* db.lookup()?.get(path[1])?...: the entry reached, the offsets of the
\* entries on the way (offs[1] is the root tree, offs[i + 1] the entry for
\* path[1..i]) and, per get, the root its local tree ended with.
Navigate(path, d) == NavRoot(path, Database_lookup(d))

Record(path, offs) ==
  [q \in DOMAIN got \cup {SubSeq(path, 1, i) : i \in 1..(Len(offs) - 1)} |->
     IF \E i \in 1..(Len(offs) - 1) : q = SubSeq(path, 1, i)
     THEN offs[Len(q) + 1] ELSE got[q]]

InitTree ==
  /\ db = Database_initialize(<<>>)
  /\ tree = 0
  /\ reference = [q \in {} |-> <<>>]
  /\ got = [q \in {} |-> 0]
  /\ last = [op |-> "init", path |-> <<>>, key |-> 0, data |-> <<>>,
             entry |-> 0, tree |-> 0, result |-> None]
  /\ nops = 0

SetValueDone(p, k, v, n, r) ==
  /\ db' = r.db
  /\ got' = Record(p, n.offs)
  /\ last' = [op |-> "set_value", path |-> p, key |-> k, data |-> v,
              entry |-> n.offset, tree |-> r.tree, result |-> None]

SetValueAt(p, k, v, n) == SetValueDone(p, k, v, n, TreeEntry_set_value(n.offset, k, v, n.db))

\* db.lookup()?.get(..)?.set_value(k, v)
SetValue(p, k, v) ==
  /\ db.st = "ok" /\ nops < MaxTreeOps
  /\ SetValueAt(p, k, v, Navigate(p, db))
  /\ reference' = [q \in DOMAIN reference \cup {Append(p, k)} |->
                     IF q = Append(p, k) THEN v ELSE reference[q]]
  /\ nops' = nops + 1
  /\ UNCHANGED tree

GetDone(p, k, n, g) ==
  /\ db' = g.db
  /\ got' = Record(Append(p, k), Append(n.offs, g.offset))
  /\ last' = [op |-> "get", path |-> p, key |-> k, data |-> <<>>,
              entry |-> n.offset, tree |-> g.tree, result |-> Some(g.offset)]

GetAt(p, k, n) == GetDone(p, k, n, TreeEntry_get(n.offset, k, n.db))

\* db.lookup()?.get(..)?.get(k)?
Get(p, k) ==
  /\ db.st = "ok" /\ nops < MaxTreeOps
  /\ GetAt(p, k, Navigate(p, db))
  /\ nops' = nops + 1
  /\ UNCHANGED <<tree, reference>>

ValueDone(p, k, n, r) ==
  /\ db' = IF n.db.st = "ok" THEN Fail(n.db, r.st) ELSE n.db
  /\ got' = Record(p, n.offs)
  /\ last' = [op |-> "value", path |-> p, key |-> k, data |-> <<>>,
              entry |-> n.offset, tree |-> n.offset, result |-> r.val]

ValueAt(p, k, n) == ValueDone(p, k, n, TreeEntry_value(n.offset, k, n.db))

\* db.lookup()?.get(..)?.value(k)?
Value(p, k) ==
  /\ db.st = "ok" /\ nops < MaxTreeOps
  /\ ValueAt(p, k, Navigate(p, db))
  /\ nops' = nops + 1
  /\ UNCHANGED <<tree, reference>>

\* the device is closed and opened again with Database::from_existing
Reopen ==
  /\ db.st = "ok" /\ last.op # "reopen"
  /\ db' = Database_from_existing(db.disk)
  /\ last' = [op |-> "reopen", path |-> <<>>, key |-> 0, data |-> <<>>,
              entry |-> 0, tree |-> 0, result |-> None]
  /\ UNCHANGED <<tree, reference, nops, got>>

NextTree ==
  \/ \E p \in Paths(0, MaxDepth), k \in TreeKeys, v \in TreeValues : SetValue(p, k, v)
  \/ \E p \in Paths(0, MaxDepth - 1), k \in TreeKeys : Get(p, k)
  \/ \E p \in Paths(0, MaxDepth), k \in TreeKeys : Value(p, k)
  \/ Reopen

SpecTree == InitTree /\ [][NextTree]_vars

RECURSIVE LeafDepths(_, _)
LeafDepths_page(p, d) ==
  IF p.st # "ok" THEN {}
  ELSE IF p.page.kind = "Leaf" THEN {0}
  ELSE {n + 1 : n \in UNION {LeafDepths(p.page.pointers[i], d) :
                               i \in DOMAIN p.page.pointers}}

\* the depths, below the page at `offset`, of the leaves that the pointers of
\* internal pages lead to
LeafDepths(offset, d) == LeafDepths_page(Page_load(offset, d), d)

\* C13: after every insert and delete all leaves reachable from the root are
\* at one depth (so no internal page has a leaf child beside an internal
\* child).
C13_LeavesAtSameDepth == db.st = "ok" /\ Cardinality(LeafDepths(tree, db)) = 1

\* the keys stored in the leaves below the page at `offset`
SubtreeKeys(offset, d) ==
  {ReachableKeys(offset, d)[j] : j \in 1..Len(ReachableKeys(offset, d))}

RECURSIVE SeparatorsHold(_, _)
SeparatorsHold_page(p, d) ==
  \/ p.st # "ok"
  \/ p.page.kind = "Leaf"
  \/ \A i \in DOMAIN p.page.pointers :
       /\ \A k \in SubtreeKeys(p.page.pointers[i], d) :
            /\ i <= Len(p.page.keys) => k <= p.page.keys[i]
            /\ (i > 1 /\ i - 1 <= Len(p.page.keys)) => k > p.page.keys[i - 1]
       /\ SeparatorsHold(p.page.pointers[i], d)

SeparatorsHold(offset, d) == SeparatorsHold_page(Page_load(offset, d), d)

\* C14: after every insert and delete, in every reachable internal page the
\* keys below pointers[i] are at most keys[i] and greater than keys[i-1].
C14_SeparatorInvariant == db.st = "ok" /\ SeparatorsHold(tree, db)

\* a key that was not in the tree has been inserted below a root above
\* internal pages (a delete came before it).
C14_Witness ==
  /\ last.op = "insert" /\ last.found = None
  /\ nops > MaxOps - MaxDeepOps + 1
  /\ db.st = "ok" /\ Deep
  /\ last.key \in SubtreeKeys(tree, db)

\* the offsets handed out by allocate_block so far
AllocatedPages(d) == {block_size(d.meta) * b : b \in 1..(d.meta.num_blocks_allocated - 1)}

StrictlyAscending(keys) == \A i \in 1..(Len(keys) - 1) : keys[i] < keys[i + 1]

InternalPageOk(p, d) ==
  \/ p.st # "ok"
  \/ p.page.kind # "Internal"
  \/ /\ Len(p.page.pointers) = Len(p.page.keys) + 1
     /\ StrictlyAscending(p.page.keys)
     /\ \A i \in DOMAIN p.page.pointers :
          /\ p.page.pointers[i] \in AllocatedPages(d)
          /\ Page_load(p.page.pointers[i], d).st = "ok"

IsInternal(p) == p.st = "ok" /\ p.page.kind = "Internal"

\* C15: no persist of an internal page fails its assertions, and every
\* internal page on disk (reachable from the root or not) has one pointer
\* more than keys, strictly ascending keys and only pointers to the offsets
\* of allocated pages.
C15_InternalPageInvariant ==
  /\ db.st = "ok"
  /\ \A o \in AllocatedPages(db) : InternalPageOk(Page_load(o, db), db)

\* a delete has emptied a leaf and safe_remove has persisted an internal page
\* with no key and one pointer, next to internal pages that kept their keys.
C15_Witness ==
  /\ last.op = "delete" /\ last.found # None /\ db.st = "ok"
  /\ \E o \in AllocatedPages(db) :
       IsInternal(Page_load(o, db)) /\ Page_load(o, db).page.keys = <<>>
  /\ \E o \in AllocatedPages(db) :
       IsInternal(Page_load(o, db)) /\ Len(Page_load(o, db).page.keys) >= 2

BlobInside(page, e, page_size) ==
  e.offset >= LeafPage_header_len(page) /\ e.offset + e.value_len <= page_size

BlobsApart(e, f) ==
  e.offset + e.value_len <= f.offset \/ f.offset + f.value_len <= e.offset

LeafPageOk(p, page_size) ==
  \/ p.st # "ok"
  \/ p.page.kind # "Leaf"
  \/ /\ StrictlyAscending([i \in 1..Len(p.page.keys) |-> p.page.keys[i].key])
     /\ \A i \in 1..Len(p.page.keys) : BlobInside(p.page, p.page.keys[i], page_size)
     /\ \A i, j \in 1..Len(p.page.keys) :
          i < j => BlobsApart(p.page.keys[i], p.page.keys[j])

\* C16: every leaf page on disk has its slots in strictly ascending key
\* order, every blob between the end of the slot directory and the end of
\* the page, and no two blobs overlapping.
C16_LeafPageInvariant ==
  /\ db.st = "ok"
  /\ \A o \in AllocatedPages(db) : LeafPageOk(Page_load(o, db), block_size(db.meta))

\* an insert has put a third slot into the root leaf, one of the blobs is
\* empty and shares its offset with a neighbour, and the blobs leave less
\* than the inserted value's length free above the slot directory.
C16_Witness ==
  /\ last.op = "insert" /\ last.found = None /\ last.data = LongValue
  /\ db.st = "ok"
  /\ Root(db, tree).kind = "Leaf"
  /\ Len(Root(db, tree).keys) = 3
  /\ \E i \in 1..3 : Root(db, tree).keys[i].value_len = 0
  /\ SetMin({Root(db, tree).keys[i].offset : i \in 1..3})
       - LeafPage_header_len(Root(db, tree)) < Len(LongValue)

RECURSIVE EmptyLeafBelow(_, _)
EmptyLeafChild(c, d) ==
  /\ c.st = "ok"
  /\ \/ c.page.kind = "Leaf" /\ c.page.keys = <<>>
     \/ c.page.kind = "Internal" /\ EmptyLeafBelow(c.page.offset, d)

EmptyLeafBelow_page(p, d) ==
  /\ p.st = "ok"
  /\ p.page.kind = "Internal"
  /\ \E i \in DOMAIN p.page.pointers : EmptyLeafChild(Page_load(p.page.pointers[i], d), d)

\* some internal page below (or at) `offset` points, directly or through
\* internal pages, at a leaf without keys
EmptyLeafBelow(offset, d) == EmptyLeafBelow_page(Page_load(offset, d), d)

\* C23: when a delete empties a leaf below an internal page, that leaf is the
\* one unlinked: every other live key is still in a linked leaf, and no leaf
\* linked from an internal page is empty.
C23_EmptiedLeafUnlinked ==
  /\ db.st = "ok"
  /\ ~EmptyLeafBelow(tree, db)
  /\ last.op = "delete" => DOMAIN reference \subseteq SubtreeKeys(tree, db)

\* ---------------------------------------------------- claims on the chains
PathLookup(k, n) == BTree_lookup(n.offset, k, n.db)
PathRead(k, n) == TreeEntry_value(n.offset, k, n.db)

Front(q) == SubSeq(q, 1, Len(q) - 1)

\* db.lookup()?.get(q[1])?...value(q[Len(q)])
PathValue(q, d) == PathRead(q[Len(q)], Navigate(Front(q), d))

ChildOf(l) == IF l.val = None THEN 0 ELSE TreeEntryValue_from_data(l.val[1]).child_offset

\* the child_offset in the payload of the last key of q, 0 when there is none
PathChild(q, d) == ChildOf(PathLookup(q[Len(q)], Navigate(Front(q), d)))

\* C2: a get or set_value that changes the root page of a tree updates the
\* owner of that tree (header or parent payload) in the same call, and the
\* keys stored in the root tree stay retrievable through Database::lookup,
\* also after the file is opened again.
C2_OwnerUpdatedOnRootSplit ==
  /\ (last.op \in {"set_value", "get"} /\ last.tree # last.entry) =>
       Navigate(last.path, db).offset = last.tree
  /\ \A q \in DOMAIN reference :
       Len(q) = 1 => PathLookup(q[1], Navigate(<<>>, db)).val # None

\* C7: after root.get(A).get(B).set_value(C, v), root.get(A).get(B).value(C)
\* returns Some(v) as long as no set_value targets the same path (v not
\* empty: value returns None for a payload of 8 bytes).
C7_NestedRoundTrip ==
  \A q \in DOMAIN reference :
    (Len(q) = 3 /\ reference[q] # <<>>) => PathValue(q, db) = [st |-> "ok", val |-> Some(reference[q])]

\* C8: a get that allocates the child tree of a key k with an inline value
\* leaves value(k) as it was.
C8_MaterializeKeepsValue ==
  [][(/\ last'.op = "get"
      /\ PathValue(Append(last'.path, last'.key), db).val # None
      /\ PathChild(Append(last'.path, last'.key), db) = 0) =>
       PathValue(Append(last'.path, last'.key), db')
         = PathValue(Append(last'.path, last'.key), db)]_vars

\* C9: a set_value on a key k that addresses a child tree at offset c keeps
\* c: a get(k) after it returns the sub-tree at c.
C9_SetValueKeepsChild ==
  [][(/\ last'.op = "set_value"
      /\ PathChild(Append(last'.path, last'.key), db) # 0) =>
       Navigate(Append(last'.path, last'.key), db').offset
         = PathChild(Append(last'.path, last'.key), db)]_vars

\* C10: once a chain of gets has returned a sub-tree at offset c, the same
\* chain returns offset c again and writes nothing.
C10_GetIdempotent ==
  \A q \in DOMAIN got :
    /\ Navigate(q, db).offset = got[q]
    /\ Navigate(q, db).db = db

\* value(k) as the spec words it, from the payload `l` that lookup returns
ValueOfPayload(l) ==
  IF l.val = None \/ Len(l.val[1]) <= U64_SIZE THEN None
  ELSE Some(SubSeq(l.val[1], U64_SIZE + 1, Len(l.val[1])))

C11_At(q, k, n) ==
  /\ PathRead(k, n) = [st |-> "ok", val |-> ValueOfPayload(PathLookup(k, n))]
  /\ PathRead(k, n).val # None =>
       (q \in DOMAIN reference /\ PathRead(k, n).val = Some(reference[q]))

\* C11: value(k) is None when k is absent or its payload has at most 8
\* bytes, and otherwise the payload from byte 8 on, which is what the last
\* set_value(k, bytes) on that path wrote.
C11_ValueDecodesPayload ==
  \A p \in Paths(0, MaxDepth), k \in TreeKeys :
    C11_At(Append(p, k), k, Navigate(p, db))

\* a value call has returned bytes, and another key of the same tree has a
\* payload of 8 bytes (navigated with get, or set to no bytes) and reads None.
C11_Witness ==
  /\ last.op = "value" /\ last.result # None
  /\ \E k \in TreeKeys :
       /\ PathLookup(k, Navigate(last.path, db)).val # None
       /\ PathRead(k, Navigate(last.path, db)).val = None

\* C12: after Database::initialize and set_value calls on the root tree, the
\* device opened again with Database::from_existing returns, through
\* Database::lookup(), the value last written for every key (a key last set
\* to no bytes reads None and is left out).
C12_ReopenRoundTrip ==
  (last.op = "reopen" /\ DOMAIN got = {}) =>
    \A q \in DOMAIN reference :
      reference[q] # <<>> => PathValue(q, db) = [st |-> "ok", val |-> Some(reference[q])]

\* ------------------------------------------------------- one leaf page
\* tests_leafpage: Database::initialize on an empty Cursor, LeafPage::init,
\* then upsert_value, delete_value and split_in_half on that page.  `tree` is
\* the offset of the page, `got` the offset of the last right sibling and
\* `reference` the values of the slots the page holds.
MaxLeafOps == 4

\* a value one byte longer than an empty leaf has room for, beside the values
\* of the fuzzer
HugeValue == [i \in 1..(2 ^ BlockSizeExp - U8_SIZE - U64_SIZE - size_of_entry + 1) |-> 3]
LeafValues == Values \cup {HugeValue}

SlotKeys(page) == [i \in 1..Len(page.keys) |-> page.keys[i].key]

\* the page as read_header reloads it from disk
LeafLoaded(offset, disk) == LeafPage_read_header(disk, offset).page

InitLeaf ==
  /\ Created(BTree_init(Database_initialize(<<>>)))
  /\ reference = [k \in {} |-> <<>>]
  /\ last = [op |-> "init", before |-> <<>>, left |-> <<>>, right |-> <<>>]
  /\ nops = 0
  /\ got = <<>>

\* page.upsert_value(k, v, &mut db)
LeafUpsert(k, v) ==
  /\ db.st = "ok" /\ nops < MaxLeafOps
  /\ db' = LeafPage_upsert_value(LeafLoaded(tree, db.disk), k, v, db).db
  /\ reference' = [x \in DOMAIN reference \cup {k} |-> IF x = k THEN v ELSE reference[x]]
  /\ last' = [op |-> "upsert", before |-> SlotKeys(LeafLoaded(tree, db.disk)),
              left |-> <<>>, right |-> <<>>]
  /\ nops' = nops + 1
  /\ UNCHANGED <<tree, got>>

\* page.delete_value(k, &mut db.disk)
LeafDelete(k) ==
  /\ db.st = "ok" /\ nops < MaxLeafOps
  /\ db' = [db EXCEPT !.disk = LeafPage_delete_value(LeafLoaded(tree, db.disk), k, db.disk).disk]
  /\ reference' = [x \in DOMAIN reference \ {k} |-> reference[x]]
  /\ last' = [op |-> "delete", before |-> SlotKeys(LeafLoaded(tree, db.disk)),
              left |-> <<>>, right |-> <<>>]
  /\ nops' = nops + 1
  /\ UNCHANGED <<tree, got>>

\* page.split_in_half(&mut db) returned `s`; both pages are read back with
\* read_header as test_split does.
\* the (key, value) pairs of a leaf as lookup_value reads them from disk
LeafPairs(page, disk) ==
  [k \in {page.keys[i].key : i \in DOMAIN page.keys} |->
     lookup_value(page, k, disk).val]

SplitApplied(s) ==
  /\ db' = s.db
  /\ got' = IF s.db.st = "ok" THEN <<s.right.offset>> ELSE got
  /\ last' = [op |-> "split", before |-> SlotKeys(LeafLoaded(tree, db.disk)),
              pairs |-> LeafPairs(LeafLoaded(tree, db.disk), db.disk),
              left |-> SlotKeys(LeafLoaded(tree, s.db.disk)),
              right |-> IF s.db.st = "ok"
                        THEN SlotKeys(LeafLoaded(s.right.offset, s.db.disk)) ELSE <<>>]
  /\ reference' = [x \in {k \in DOMAIN reference : FindEntry(s.page, k) # 0} |-> reference[x]]

LeafSplit ==
  /\ db.st = "ok" /\ nops < MaxLeafOps
  /\ SplitApplied(LeafPage_split_in_half(LeafLoaded(tree, db.disk), db))
  /\ nops' = nops + 1
  /\ UNCHANGED tree

NextLeaf ==
  \/ \E k \in Keys, v \in LeafValues : LeafUpsert(k, v)
  \/ \E k \in Keys : LeafDelete(k)
  \/ LeafSplit

SpecLeaf == InitLeaf /\ [][NextLeaf]_vars

\* the halves of `before` when the left half takes `n` slots
Halves(before, n, left, right) ==
  /\ left = SubSeq(before, 1, n)
  /\ right = SubSeq(before, n + 1, Len(before))

\* C17 as stated: split_in_half keeps the lower slots on the left and moves
\* the upper slots to the right sibling; of an odd number of slots the extra
\* one stays on the left.
C17_SplitKeepsExtraLeft ==
  (last.op = "split" /\ db.st = "ok") =>
    Halves(last.before, (Len(last.before) + 1) \div 2, last.left, last.right)

\* C17 as the code has it: split_in_half keeps the lower slots on the left and
\* moves the upper slots to the right sibling; of an odd number of slots the
\* extra one goes to the right (left holds n div 2, right the rest).
C17_SplitMovesExtraRight ==
  (last.op = "split" /\ db.st = "ok") =>
    Halves(last.before, Len(last.before) \div 2, last.left, last.right)

\* a leaf of three slots has been split
C17_Witness ==
  /\ last.op = "split" /\ db.st = "ok"
  /\ Len(last.before) = 3
  /\ Len(last.right) = 2

\* the offset is the start of an allocated block that holds a page tag
ValidPage(o, d) ==
  /\ o \in AllocatedPages(d)
  /\ CanRead(d.disk, o, U8_SIZE)
  /\ d.disk[o + 1] \in {LEAF_TAG, INTERNAL_TAG}

\* the child_offset of every payload of a leaf, as TreeEntry::get decodes it
PayloadChildren(page, disk) ==
  {TreeEntryValue_from_data(
     lookup_value_alloc(page, page.keys[i].key, disk).val[1]).child_offset :
     i \in DOMAIN page.keys} \ {0}

PageReferences(p, disk) ==
  IF p.st # "ok" THEN {}
  ELSE IF p.page.kind = "Internal"
  THEN {p.page.pointers[i] : i \in DOMAIN p.page.pointers}
  ELSE PayloadChildren(p.page, disk)

\* C37: every offset Page::load can be called with, the root tree of the
\* header, a TreeEntry handed out, a pointer of an internal page or a
\* child_offset stored in a leaf payload, is the start of an allocated block
\* whose first byte is the leaf or the internal tag, and no call has panicked.
C37_NoDanglingReferences ==
  /\ db.st = "ok"
  /\ db.meta.root_btree_offset # 0 => ValidPage(db.meta.root_btree_offset, db)
  /\ \A q \in DOMAIN got : got[q] # 0 => ValidPage(got[q], db)
  /\ \A o \in AllocatedPages(db) :
       \A r \in PageReferences(Page_load(o, db), db.disk) : ValidPage(r, db)

\* a tree of the file has an internal root, and a leaf payload names a child
\* tree that a get has created.
C37_Witness ==
  /\ db.st = "ok"
  /\ \E o \in AllocatedPages(db) : IsInternal(Page_load(o, db))
  /\ \E o \in AllocatedPages(db) :
       /\ ~IsInternal(Page_load(o, db))
       /\ PageReferences(Page_load(o, db), db.disk) # {}

\* the smallest 0-based i with key <= keys[i], or keys.len()
ChildIndex(keys, key) ==
  IF \E i \in 1..Len(keys) : key <= keys[i]
  THEN SetMin({i \in 1..Len(keys) : key <= keys[i]}) - 1
  ELSE Len(keys)

RoutedLeft(p) ==
  IsInternal(p) =>
    \A key \in 0..(DeepKeys + 1) :
      binary_search(p.page.keys, key).idx = ChildIndex(p.page.keys, key)

\* C38: at every internal page the index that btree_insert_nonfull,
\* btree_search and InternalPage::delete_value compute for a key by
\* binary_search is the smallest i with key <= keys[i], or keys.len() when
\* there is none; a key equal to a separator goes to the left child i.
C38_ConsistentRouting ==
  \A o \in AllocatedPages(db) : RoutedLeft(Page_load(o, [db EXCEPT !.st = "ok"]))

\* an insert or delete of a key that equals a separator of an internal page
\* with two or more keys has descended through that page.
C38_Witness ==
  /\ last.op \in {"insert", "delete"}
  /\ db.st = "ok"
  /\ nops > MaxOps - MaxDeepOps
  /\ IsInternal(Page_load(tree, db))
  /\ \E o \in AllocatedPages(db) :
       /\ IsInternal(Page_load(o, db))
       /\ Len(Page_load(o, db).page.keys) >= 2
       /\ \E i \in DOMAIN Page_load(o, db).page.keys :
            Page_load(o, db).page.keys[i] = last.key

WithinCapacity(p, d) ==
  IsInternal(p) =>
    Len(p.page.pointers) <= max_children_capacity(block_size(d.meta))

\* C27: the capacity assert of InternalPage::persist never fails: no internal
\* page on disk has more pointers than max_children_capacity(block_size).
C27_InternalCapacity ==
  /\ db.st # "panic"
  /\ \A o \in AllocatedPages(db) :
       WithinCapacity(Page_load(o, [db EXCEPT !.st = "ok"]), db)

\* An insert has persisted an internal page that holds as many pointers as
\* the capacity allows, in a tree whose root is an internal page above it.
C27_Witness ==
  /\ last.op = "insert"
  /\ nops > MaxOps - MaxDeepOps
  /\ db.st = "ok"
  /\ \E o \in AllocatedPages(db) :
       /\ IsInternal(Page_load(o, db))
       /\ Len(Page_load(o, db).page.pointers)
            = max_children_capacity(block_size(db.meta))

\* C24: after a BTree::delete that returned, the root of the tree is a leaf
\* or an internal page with at least one key: a root left without keys has
\* been replaced by its only child within the same delete.
C24_RootCollapsed ==
  (last.op = "delete" /\ db.st = "ok")
    => (Root(db, tree).kind = "Leaf" \/ Root(db, tree).keys # <<>>)

\* A delete took the last separator out of an internal root: the root is a
\* leaf again although the tree has been split before.
C24_Witness ==
  /\ last.op = "delete"
  /\ db.st = "ok"
  /\ Root(db, tree).kind = "Leaf"
  /\ db.meta.num_blocks_allocated > 2

\* C28: after split_in_half the pairs of the left leaf together with those of
\* the new right sibling, read through the page headers on disk, are exactly
\* the pairs of the original leaf, none lost, duplicated or altered, and every
\* key on the left is smaller than every key on the right.
C28_SplitConservesContent ==
  last.op = "split" =>
    /\ db.st = "ok"
    /\ SlotKeys(LeafLoaded(tree, db.disk)) \o SlotKeys(LeafLoaded(got[1], db.disk))
         = last.before
    /\ LeafPairs(LeafLoaded(tree, db.disk), db.disk)
         @@ LeafPairs(LeafLoaded(got[1], db.disk), db.disk) = last.pairs
    /\ \A i \in DOMAIN last.left, j \in DOMAIN last.right :
         last.left[i] < last.right[j]

\* a leaf of three slots, one of them with a blob of some bytes, was split
\* into two leaves that both hold slots.
C28_Witness ==
  /\ last.op = "split" /\ db.st = "ok"
  /\ Len(last.before) = 3
  /\ last.left # <<>> /\ last.right # <<>>
  /\ \E k \in DOMAIN last.pairs : last.pairs[k] \notin {None, Some(EmptyValue)}

\* C25: every call of upsert_value comes to an end, for every state of the
\* leaf and every length of the data.
C25_UpsertTerminates == last.op = "upsert" => db.st # "overflow"

\* ------------------------------------------------------ claims on the file
\* every block handed out holds a page, and the file ends with the last one
BlocksInUse(d) ==
  /\ d.meta.num_blocks_allocated >= 1
  /\ \A o \in AllocatedPages(d) : Page_load(o, d).st = "ok"
  /\ Len(d.disk) <= block_size(d.meta) * d.meta.num_blocks_allocated

\* what allocate_block would return next
NextBlock(d) == allocate_block(d).val

\* C18: allocate_block hands out block_size times the number of blocks
\* allocated before the call: a non-zero multiple of block_size above every
\* offset handed out before; num_blocks_allocated is at least 1 and never
\* decreases, and a block once handed out stays a page for good.
C18_AllocationMonotonic ==
  /\ [](/\ BlocksInUse(db)
        /\ db.st = "ok" =>
             /\ NextBlock(db) # 0
             /\ NextBlock(db) % block_size(db.meta) = 0
             /\ \A o \in AllocatedPages(db) : o < NextBlock(db))
  /\ [][/\ db'.meta.num_blocks_allocated >= db.meta.num_blocks_allocated
        /\ db'.meta.block_size_exp = db.meta.block_size_exp
        /\ db'.st = "ok" => NextBlock(db') >= NextBlock(db)
        /\ AllocatedPages(db) \subseteq AllocatedPages(db')
        /\ \A o \in AllocatedPages(db) : Page_load(o, db').st = "ok"]_vars

\* a get has allocated the page of a child tree after at least two other
\* allocations
C18_Witness ==
  /\ last.op = "get" /\ db.st = "ok"
  /\ db.meta.num_blocks_allocated >= 4
  /\ last.result = Some(block_size(db.meta) * (db.meta.num_blocks_allocated - 1))

\* C19: after every operation the 24 bytes at offset 0 of the device decode
\* to the header held in memory, so that from_existing on the device gives
\* the same database.
C19_HeaderPersisted ==
  /\ db.st = "ok"
  /\ DiskRead(db.disk, 0, HEADER_BYTES)
       = to_be_bytes(db.meta.block_size_exp, U64_SIZE)
           \o to_be_bytes(db.meta.num_blocks_allocated, U64_SIZE)
           \o to_be_bytes(db.meta.root_btree_offset, U64_SIZE)
  /\ Database_from_existing(db.disk) = db

\* an operation on a database that was not just reopened has set the root
\* tree in the header and allocated pages after it
C19_Witness ==
  /\ last.op \in {"set_value", "get"} /\ db.st = "ok"
  /\ db.meta.root_btree_offset # 0
  /\ db.meta.num_blocks_allocated >= 3

\* the header of a database nothing has been looked up in
FreshHeader ==
  [block_size_exp |-> BlockSizeExp, num_blocks_allocated |-> 1, root_btree_offset |-> 0]

\* the first lookup on `d` returned `r`: one block more, an empty leaf at the
\* offset returned, that offset in the header in memory and on disk.
FirstLookup(d, r) ==
  /\ r.db.st = "ok"
  /\ r.offset # 0
  /\ r.db.meta = [d.meta EXCEPT !.num_blocks_allocated = @ + 1,
                                !.root_btree_offset = r.offset]
  /\ AllocatedPages(r.db) = AllocatedPages(d) \cup {r.offset}
  /\ Page_load(r.offset, r.db)
       = [st |-> "ok", page |-> [kind |-> "Leaf", offset |-> r.offset, keys |-> <<>>]]
  /\ Database_from_existing(r.db.disk) = r.db

\* C20: initialize writes the header with the block size exponent, one block
\* allocated and no root tree; the first lookup allocates exactly one leaf
\* page and stores its non-zero offset in the header; every later lookup
\* returns that offset and allocates nothing.
C20_LazyRootTree ==
  /\ [](last.op = "init" =>
          /\ db = [disk |-> db.disk, meta |-> FreshHeader, st |-> "ok"]
          /\ db = Database_from_existing(db.disk))
  /\ [](db.meta.root_btree_offset = 0 => FirstLookup(db, Database_lookup(db)))
  /\ [](db.meta.root_btree_offset # 0 =>
          Database_lookup(db) = [db |-> db, offset |-> db.meta.root_btree_offset])
  /\ [][/\ db.meta.root_btree_offset # 0 =>
             db'.meta.root_btree_offset = db.meta.root_btree_offset
        /\ (db.meta.root_btree_offset # 0 /\ last'.op = "value" /\ last'.path = <<>>) =>
             db' = db
        /\ (db.meta.root_btree_offset = 0 /\ last'.op = "value" /\ last'.path = <<>>) =>
             FirstLookup(db, [db |-> db', offset |-> db'.meta.root_btree_offset])]_vars

\* db.lookup()?.value(k) has run on a database whose root tree a lookup
\* before it had allocated, and the root tree is still the only page
C20_Witness ==
  /\ last.op = "value" /\ last.path = <<>> /\ db.st = "ok"
  /\ nops >= 2
  /\ db.meta.root_btree_offset = block_size(db.meta)
  /\ db.meta.num_blocks_allocated = 2

\* --------------------------------------------------- one internal page
\* An internal page on a device of page size 2^e, as InternalPage::init and
\* the safe_insert calls of btree_split_child leave it: `got` is the page in
\* memory, `tree` its offset.  Pages of the sizes of test_max_child_capacity
\* and of init_header start full or one pointer short of it; smaller pages
\* start with any number of pointers up to their capacity.
MinPageExp == 7
MaxSmallExp == 10
TestPageExps == {11, 12, 13}
MaxPageOps == 3
KeyStep == 10

PageExps == MinPageExp..MaxSmallExp \cup TestPageExps

PointerCounts(e) ==
  IF e \in TestPageExps
  THEN {max_children_capacity(2 ^ e) - 1, max_children_capacity(2 ^ e)}
  ELSE 1..max_children_capacity(2 ^ e)

\* init_header with the exponent e
HeaderOf(e) ==
  [disk |-> DatabaseMeta_persist(
              [block_size_exp |-> e, num_blocks_allocated |-> 1, root_btree_offset |-> 0],
              <<>>),
   meta |-> [block_size_exp |-> e, num_blocks_allocated |-> 1, root_btree_offset |-> 0],
   st |-> "ok"]

\* the page InternalPage::init allocated at `a`, after n - 1 safe_inserts
PageOf(a, n) ==
  [kind |-> "Internal", offset |-> a.val,
   keys |-> [j \in 1..(n - 1) |-> KeyStep * j],
   pointers |-> [j \in 1..n |-> a.val * (j + 1)]]

PageCreated(a, n) ==
  /\ db = InternalPage_persist(PageOf(a, n), a.db)
  /\ got = PageOf(a, n)
  /\ tree = a.val

InitInternal ==
  /\ \E e \in PageExps : \E n \in PointerCounts(e) :
       PageCreated(allocate_block(HeaderOf(e)), n)
  /\ reference = <<>>
  /\ last = [op |-> "init", before |-> <<>>, right |-> <<>>, key |-> 0]
  /\ nops = 0

PageApplied(r, op, right, key) ==
  /\ db' = r.db
  /\ got' = r.page
  /\ last' = [op |-> op, before |-> got, right |-> right, key |-> key]
  /\ nops' = nops + 1
  /\ UNCHANGED <<tree, reference>>

\* node.safe_insert(i, key, pointer, db) of btree_split_child, on a node that
\* is not full: at the end, or in front of the first key.
PageInsertLast ==
  /\ db.st = "ok" /\ nops < MaxPageOps
  /\ ~is_full(got, block_size(db.meta))
  /\ PageApplied(InternalPage_safe_insert(got, Len(got.keys),
                   KeyStep * (Len(got.pointers) + nops), tree * (Len(got.pointers) + 2), db),
                 "insert", <<>>, KeyStep * (Len(got.pointers) + nops))

PageInsertFirst ==
  /\ db.st = "ok" /\ nops < MaxPageOps
  /\ ~is_full(got, block_size(db.meta))
  /\ got.keys # <<>> /\ got.keys[1] > 1
  /\ PageApplied(InternalPage_safe_insert(got, 0, got.keys[1] - 1, tree * 2, db),
                 "insert", <<>>, got.keys[1] - 1)

PageSplitDone(s) == PageApplied(s, "split", s.right, s.key)

\* left_sibling.split_in_half(db) of btree_split_child, on a full page
PageSplit ==
  /\ db.st = "ok" /\ nops < MaxPageOps
  /\ is_full(got, block_size(db.meta))
  /\ PageSplitDone(InternalPage_split_in_half(got, db))

NextInternal ==
  \/ PageInsertLast
  \/ PageInsertFirst
  \/ PageSplit

SpecInternal == InitInternal /\ [][NextInternal]_vars

\* C29: InternalPage::split_in_half of a full page moves the upper keys and
\* pointers to a new right page and returns the last remaining left key as
\* separator: both pages, in memory and on disk, have one pointer more than
\* keys, every left key is below the separator and every right key above it,
\* and the left keys, the separator and the right keys are the original keys
\* in order, as the left and right pointers are the original pointers.
C29_InternalSplit ==
  last.op = "split" =>
    /\ db.st = "ok"
    /\ Len(got.pointers) = Len(got.keys) + 1
    /\ Len(last.right.pointers) = Len(last.right.keys) + 1
    /\ \A i \in DOMAIN got.keys : got.keys[i] < last.key
    /\ \A i \in DOMAIN last.right.keys : last.right.keys[i] > last.key
    /\ got.keys \o <<last.key>> \o last.right.keys = last.before.keys
    /\ got.pointers \o last.right.pointers = last.before.pointers
    /\ Page_load(tree, db).page = got
    /\ Page_load(last.right.offset, db).page = last.right

\* a page of the code's block size (8192 bytes) with 340 keys was split
C29_Witness ==
  /\ last.op = "split" /\ db.st = "ok"
  /\ block_size(db.meta) = 2 ^ 13
  /\ Len(last.before.keys) = 340
  /\ Len(got.keys) = 169 /\ Len(last.right.keys) = 170

\* C21: max_children_capacity(page_size) is floor((page_size + 16 - 9) / 24),
\* that is 85, 170 and 341 for 2048, 4096 and 8192; is_full holds exactly
\* when the page has at least that many pointers; and a page with that many
\* pointers, persisted as the last block of the device, ends inside its block
\* and loads as it was persisted.
C21_Fanout ==
  /\ max_children_capacity(2048) = 85
  /\ max_children_capacity(4096) = 170
  /\ max_children_capacity(8192) = 341
  /\ max_children_capacity(block_size(db.meta)) = (block_size(db.meta) + 16 - 9) \div 24
  /\ is_full(got, block_size(db.meta))
       <=> Len(got.pointers) >= (block_size(db.meta) + 16 - 9) \div 24
  /\ db.st = "ok"
  /\ db.meta.num_blocks_allocated = 2 =>
       /\ Len(db.disk) <= tree + block_size(db.meta)
       /\ InternalPage_load(db.disk, tree) = [st |-> "ok", page |-> got]

\* the last pointer an 8192-byte page has room for has been inserted, and
\* fewer than 24 bytes of the block are left
C21_Witness ==
  /\ last.op = "insert" /\ db.st = "ok"
  /\ block_size(db.meta) = 8192
  /\ Len(got.pointers) = 341
  /\ Len(db.disk) > tree + block_size(db.meta) - 24

\* ------------------------------------------------------ opening a device
\* Database::from_existing on a device that holds the first n bytes of a
\* database file (the file after initialize and the first lookup), for every
\* n: `db` is the closed device first and what from_existing returned then.
DeviceImage == Database_lookup(Database_initialize(<<>>)).db.disk

InitOpen ==
  /\ \E n \in 0..Len(DeviceImage) :
       db = [disk |-> SubSeq(DeviceImage, 1, n), meta |-> <<>>, st |-> "closed"]
  /\ tree = 0
  /\ reference = <<>>
  /\ last = [op |-> "init", before |-> <<>>]
  /\ nops = 0
  /\ got = <<>>

\* Database::from_existing(disk)
Open ==
  /\ db.st = "closed"
  /\ db' = Database_from_existing(db.disk)
  /\ last' = [op |-> "open", before |-> db.disk]
  /\ nops' = nops + 1
  /\ UNCHANGED <<tree, reference, got>>

NextOpen == Open

SpecOpen == InitOpen /\ [][NextOpen]_vars

\* C22: from_existing on a device of fewer than 24 bytes returns an error:
\* no header is produced and the device is left as it was.
C22_ShortDeviceFails ==
  (last.op = "open" /\ Len(last.before) < 24) =>
    /\ db.st = "err"
    /\ db.meta = <<>>
    /\ db.disk = last.before

\* from_existing has failed on a device that holds two of the three header
\* fields
C22_Witness ==
  /\ last.op = "open" /\ db.st = "err"
  /\ Len(last.before) >= 2 * U64_SIZE /\ Len(last.before) < 24

\* ------------------------------------------------- inserts of long values
\* BTree::insert on a fresh tree with values of up to two thirds of what an
\* empty leaf has room for (the fuzzer's values are short beside its pages).
MaxBigKey == 4
MaxBigOps == 4

\* the longest value an empty leaf has room for
LeafRoom == 2 ^ BlockSizeExp - U8_SIZE - U64_SIZE - size_of_entry

ThirdValue == [i \in 1..(LeafRoom \div 3) |-> 4]
TwoThirdsValue == [i \in 1..((2 * LeafRoom) \div 3) |-> 5]
BigValues == {EmptyValue, ThirdValue, TwoThirdsValue}

\* tree.insert(k, v, &mut db) with a long value
BigInsert(k, v) == nops < MaxBigOps /\ Insert(k, v)

NextBig == \E k \in 1..MaxBigKey, v \in BigValues : BigInsert(k, v)

SpecBig == Init /\ [][NextBig]_vars

\* C26: in a sequence of inserts of values that each fit into an empty leaf,
\* no insert panics: the assert of upsert_value holds, end_offset - data.len()
\* does not underflow and btree_split_child finds a last key in the left
\* leaf.
C26_InsertNeverPanics == last.op = "insert" => db.st = "ok"

\* --------------------------------------------------- defragment of one leaf
\* LeafPage::defragment is private and runs inside upsert_value; here it is
\* called on the leaf that upserts and deletes have left, as a test in
\* leaf_page.rs could call it, and it ends the sequence of calls (nops is
\* set to MaxLeafOps).
DefragmentApplied(page, r) ==
  /\ db' = r.db
  /\ got' = <<r.page>>
  /\ last' = [op |-> "defragment", before |-> SlotKeys(page),
              left |-> <<>>, right |-> <<>>,
              pairs |-> LeafPairs(page, db.disk),
              end |-> end_of_free_region(page, block_size(db.meta))]
  /\ nops' = MaxLeafOps
  /\ UNCHANGED <<tree, reference>>

LeafDefragment ==
  /\ db.st = "ok" /\ nops < MaxLeafOps
  /\ DefragmentApplied(LeafLoaded(tree, db.disk),
                       defragment(LeafLoaded(tree, db.disk), db))

NextDefragment ==
  \/ \E k \in Keys, v \in LeafValues : LeafUpsert(k, v)
  \/ \E k \in Keys : LeafDelete(k)
  \/ LeafDefragment

SpecDefragment == InitLeaf /\ [][NextDefragment]_vars

ValueBytes(page) == SeqSum([i \in 1..Len(page.keys) |-> page.keys[i].value_len])

BlobAt(page, b) ==
  \E i \in DOMAIN page.keys :
    page.keys[i].offset <= b /\ b < page.keys[i].offset + page.keys[i].value_len

Compact(page, page_size) ==
  /\ end_of_free_region(page, page_size) = page_size - ValueBytes(page)
  /\ \A i \in DOMAIN page.keys :
       page.keys[i].offset + page.keys[i].value_len <= page_size
  /\ \A b \in (page_size - ValueBytes(page))..(page_size - 1) : BlobAt(page, b)

\* C30: after LeafPage::defragment the leaf holds the same keys with the same
\* value bytes as before, in memory and on disk, and its blobs fill one
\* region that ends at page_size: the lowest data offset is page_size minus
\* the sum of the value lengths, and every byte from there on belongs to a blob.
C30_DefragmentCompacts ==
  last.op = "defragment" =>
    /\ db.st = "ok"
    /\ SlotKeys(got[1]) = last.before
    /\ LeafPairs(got[1], db.disk) = last.pairs
    /\ LeafLoaded(tree, db.disk) = got[1]
    /\ Compact(got[1], block_size(db.meta))

\* the leaf held blobs and a hole below page_size - sum of value_len, left by
\* a delete or an update, and defragment moved the blobs up.
C30_Witness ==
  /\ last.op = "defragment" /\ db.st = "ok"
  /\ last.before # <<>>
  /\ ValueBytes(got[1]) > 0
  /\ last.end < end_of_free_region(got[1], block_size(db.meta))

\* ------------------------------------------------------------------- reads
\* The fuzzer's loop with reads: tree.lookup(k, &mut db) as validate calls it,
\* and TreeEntry { db, offset }.value(k) on the same tree.  Both take the
\* database by mutable reference; `db` is what they leave of it.  A read ends
\* the sequence of calls (nops is set to MaxOps).
\* The values are buffers of TreeEntryValue::into_buf without a child: eight
\* zero bytes and the data.
EntryPayload == Zeros(U64_SIZE) \o <<7>>
LongPayload == Zeros(U64_SIZE) \o LongValue
ReadValues == {EmptyValue, EntryPayload, LongPayload}

\* a lookup that rewrites the file header with the tree's root
read_returned_persisting(d, root, r) ==
  [db |-> [d EXCEPT !.meta = [d.meta EXCEPT !.root_btree_offset = root],
                    !.disk = DatabaseMeta_persist(
                               [d.meta EXCEPT !.root_btree_offset = root], d.disk)],
   val |-> r.val]

\* the database after a read that returned r: no device write is made
read_returned(d, root, r) == [db |-> Fail(d, r.st), val |-> r.val]

ReadApplied(op, k, r) ==
  /\ db' = r.db
  /\ last' = [op |-> op, key |-> k, data |-> <<>>, found |-> r.val]
  /\ nops' = MaxOps
  /\ UNCHANGED <<tree, reference, got>>

Lookup(k) ==
  /\ db.st = "ok" /\ nops < MaxOps
  /\ ReadApplied("lookup", k, read_returned(db, tree, BTree_lookup(tree, k, db)))

ReadValue(k) ==
  /\ db.st = "ok" /\ nops < MaxOps
  /\ ReadApplied("value", k, read_returned(db, tree, TreeEntry_value(tree, k, db)))

NextRead ==
  \/ \E k \in Keys, v \in ReadValues : Insert(k, v)
  \/ \E k \in Keys : Delete(k)
  \/ \E k \in Keys : Lookup(k)
  \/ \E k \in Keys : ReadValue(k)

SpecRead == Init /\ [][NextRead]_vars

DeleteInDone(p, k, n, r) ==
  /\ db' = r.db
  /\ got' = Record(p, n.offs)
  /\ last' = [op |-> "delete", path |-> p, key |-> k, data |-> <<>>,
              entry |-> n.offset, tree |-> r.root, result |-> None]

\* BTree::from_offset(entry.offset).delete(k, db)
DeleteIn(p, k) ==
  /\ db.st = "ok" /\ nops < MaxTreeOps
  /\ DeleteInDone(p, k, Navigate(p, db), BTree_delete(Navigate(p, db).offset, k, Navigate(p, db).db))
  /\ reference' = [q \in DOMAIN reference \ {Append(p, k)} |-> reference[q]]
  /\ nops' = nops + 1
  /\ UNCHANGED tree

NextIsolation ==
  \/ \E p \in Paths(0, MaxDepth), k \in TreeKeys, v \in TreeValues : SetValue(p, k, v)
  \/ \E p \in Paths(0, MaxDepth - 1), k \in TreeKeys : Get(p, k)
  \/ \E p \in Paths(0, MaxDepth), k \in TreeKeys : DeleteIn(p, k)

SpecIsolation == InitTree /\ [][NextIsolation]_vars

RECURSIVE TreePages(_, _)
TreePages_page(p, d) ==
  IF p.st = "ok" /\ p.page.kind = "Internal"
  THEN UNION {TreePages(p.page.pointers[i], d) : i \in DOMAIN p.page.pointers}
  ELSE {}

\* the pages of the tree with this root: the root and what its pointers reach
TreePages(o, d) == {o} \cup TreePages_page(Page_load(o, d), d)

BlockBytes(o, d) ==
  [i \in 1..block_size(d.meta) |-> IF o + i <= Len(d.disk) THEN d.disk[o + i] ELSE 0]

\* after the entry n was reached, the call that led to d2 has changed no
\* block that was allocated then, except pages of the entry's tree
ChangedOnlyIn(n, d2) ==
  \A o \in AllocatedPages(n.db) :
    BlockBytes(o, d2) = BlockBytes(o, n.db) \/ o \in TreePages(n.offset, n.db)

\* C36: a set_value, get or delete inside one tree changes, of the blocks
\* allocated before the call, only pages of that tree: the pages of its
\* parent with their inline values, of sibling sub-trees and of every other
\* tree of the file keep their bytes, and so their keys and values.
C36_TreeIsolation ==
  [][last'.op \in {"set_value", "get", "delete"}
       => ChangedOnlyIn(Navigate(last'.path, db), db')]_vars

\* a call inside a child tree, in a file whose root tree holds an inline
\* value and a second child tree
C36_Witness ==
  /\ last.op \in {"set_value", "get", "delete"}
  /\ db.st = "ok"
  /\ Len(last.path) >= 1
  /\ \E q \in DOMAIN reference : Len(q) = 1
  /\ \E q \in DOMAIN got : Len(q) = 1 /\ q # SubSeq(last.path, 1, 1) /\ got[q] # 0

\* ----------------------------------------------------------- budget server
\* The handlers of budget_server over one Database behind one Mutex.  A
\* request is received, waits for the lock, makes its engine calls one step
\* at a time and answers when its guard is dropped.  `got` is the server:
\* the holder of the mutex (0 when free) and the requests in flight.  The
\* blocks are twice the size of the other specifications', so that the
\* EXPENSES tree keeps its few keys in one leaf.
Tables_EXPENSES == 0
Expense_UUID == 0
Expense_AMOUNT == 1
UUID_BYTES == 16
AMOUNT_BYTES == 8

MaxUuid == 2
MaxAmount == 2
MaxRequests == 2
MaxServerOps == 3

Requests == 1..MaxRequests
PostedUuids == 1..MaxUuid
\* a UUID that no POST has answered with
UnknownUuid == MaxUuid + 1
Idle == [kind |-> "none", uuid |-> 0, amount |-> 0, pc |-> "idle", keys |-> <<>>]

\* TreeEntry::keys: the key iterator of the entry's tree, collected
TreeEntry_keys(offset, d) == BTree_keys(offset, d)

\* read_expense after the entry of the expense was reached and AMOUNT read:
\* [db, val]; try_into().unwrap() fails on a value that is not 8 bytes long
read_expense_value(n, v) ==
  IF n.db.st # "ok" THEN [db |-> n.db, val |-> None]
  ELSE IF v.st # "ok" THEN [db |-> Fail(n.db, v.st), val |-> None]
  ELSE IF v.val # None /\ Len(v.val[1]) # AMOUNT_BYTES
  THEN [db |-> Fail(n.db, "panic"), val |-> None]
  ELSE [db |-> n.db,
        val |-> IF v.val = None THEN None ELSE Some(from_be_bytes(v.val[1]))]

read_expense_at(n) ==
  read_expense_value(n, TreeEntry_value(n.offset, Expense_AMOUNT, n.db))

\* read_expense: [db, val] (val is the amount)
read_expense(uuid, d) == read_expense_at(Navigate(<<Tables_EXPENSES, uuid>>, d))

set_field_at(n, field, data) == TreeEntry_set_value(n.offset, field, data, n.db).db

\* db.lookup()?.get(Tables::EXPENSES)?.get(key)?.set_value(field, data)
set_field(uuid, field, data, d) ==
  set_field_at(Navigate(<<Tables_EXPENSES, uuid>>, d), field, data)

\* .unwrap() of an Option
unwrapped(r) ==
  IF r.db.st = "ok" /\ r.val = None THEN Fail(r.db, "panic") ELSE r.db

\* a lock() that does not wait for the holder
mutex_taken_anyway(holder) == TRUE

\* req.state().db.lock(): the mutex is handed to a request when it is free
mutex_free(holder) == holder = 0

InitServer ==
  /\ db = HeaderOf(BlockSizeExp + 1)
  /\ tree = 0
  /\ reference = [u \in {} |-> 0]
  /\ got = [mutex |-> 0, reqs |-> [r \in Requests |-> Idle]]
  /\ last = [op |-> "init", req |-> 0, uuid |-> 0, resp |-> 0]
  /\ nops = 0

Stepped(r, op, req, resp, mutex) ==
  /\ got' = [mutex |-> mutex, reqs |-> [got.reqs EXCEPT ![r] = req]]
  /\ last' = [op |-> op, req |-> r, resp |-> resp,
              uuid |-> IF req.pc = "idle" THEN got.reqs[r].uuid ELSE req.uuid]

\* a request arrives: POST /expenses, GET /expenses/:uuid (of an expense
\* that was answered, or of none) or GET /expenses
Receive(r, kind, uuid, amount) ==
  /\ db.st = "ok" /\ nops < MaxServerOps
  /\ kind = "get" => uuid \in DOMAIN reference \cup {UnknownUuid}
  /\ got.reqs[r].pc = "idle"
  /\ Stepped(r, "receive",
             [kind |-> kind, uuid |-> uuid, amount |-> amount, pc |-> "lock", keys |-> <<>>],
             0, got.mutex)
  /\ nops' = nops + 1
  /\ UNCHANGED <<db, tree, reference>>

\* let mut db = req.state().db.lock().unwrap()
Lock(r) ==
  /\ db.st = "ok"
  /\ got.reqs[r].pc = "lock"
  /\ mutex_free(got.mutex)
  /\ Stepped(r, "lock", [got.reqs[r] EXCEPT !.pc = got.reqs[r].kind], 0, r)
  /\ UNCHANGED <<db, tree, reference, nops>>

\* insert_expense: Uuid::new_v4() and set_value(Expense::UUID, ..)
PostUuid(r, u) ==
  /\ db.st = "ok"
  /\ got.reqs[r].pc = "post"
  /\ u \notin DOMAIN reference
  /\ \A x \in Requests : got.reqs[x].uuid # u
  /\ db' = set_field(u, Expense_UUID, to_be_bytes(u, UUID_BYTES), db)
  /\ Stepped(r, "post_uuid", [got.reqs[r] EXCEPT !.pc = "amount", !.uuid = u], 0, got.mutex)
  /\ UNCHANGED <<tree, reference, nops>>

\* insert_expense: set_value(Expense::AMOUNT, ..)
PostAmount(r) ==
  /\ db.st = "ok"
  /\ got.reqs[r].pc = "amount"
  /\ db' = set_field(got.reqs[r].uuid, Expense_AMOUNT,
                     to_be_bytes(got.reqs[r].amount, AMOUNT_BYTES), db)
  /\ Stepped(r, "post_amount", [got.reqs[r] EXCEPT !.pc = "read"], 0, got.mutex)
  /\ UNCHANGED <<tree, reference, nops>>

\* insert_expense: read_expense(db, uuid)?.unwrap(), and the answer
PostRead(r) ==
  /\ db.st = "ok"
  /\ got.reqs[r].pc = "read"
  /\ db' = unwrapped(read_expense(got.reqs[r].uuid, db))
  /\ Stepped(r, "post_read", Idle, 200, 0)
  /\ reference' = [u \in DOMAIN reference \cup {got.reqs[r].uuid} |->
                     IF u = got.reqs[r].uuid THEN got.reqs[r].amount ELSE reference[u]]
  /\ UNCHANGED <<tree, nops>>

\* get_expense: read_expense and the answer, 200 or 404
GetExpense(r) ==
  /\ db.st = "ok"
  /\ got.reqs[r].pc = "get"
  /\ db' = read_expense(got.reqs[r].uuid, db).db
  /\ Stepped(r, "get", Idle,
             IF read_expense(got.reqs[r].uuid, db).val = None THEN 404 ELSE 200, 0)
  /\ UNCHANGED <<tree, reference, nops>>

AllKeysAt(r, n, ks) ==
  /\ db' = IF n.db.st = "ok" THEN Fail(n.db, ks.st) ELSE n.db
  /\ Stepped(r, "all_keys", [got.reqs[r] EXCEPT !.pc = "each", !.keys = ks.keys],
             0, got.mutex)

AllKeysFrom(r, n) == AllKeysAt(r, n, TreeEntry_keys(n.offset, n.db))

\* get_all_expenses: db.lookup()?.get(Tables::EXPENSES)?.keys()?.collect()
AllKeys(r) ==
  /\ db.st = "ok"
  /\ got.reqs[r].pc = "all"
  /\ AllKeysFrom(r, Navigate(<<Tables_EXPENSES>>, db))
  /\ UNCHANGED <<tree, reference, nops>>

\* get_all_expenses: read_expense(db, key)?.unwrap() for the next key
AllRead(r) ==
  /\ db.st = "ok"
  /\ got.reqs[r].pc = "each"
  /\ got.reqs[r].keys # <<>>
  /\ db' = unwrapped(read_expense(Head(got.reqs[r].keys), db))
  /\ Stepped(r, "all_read",
             [got.reqs[r] EXCEPT !.keys = Tail(@), !.uuid = Head(got.reqs[r].keys)],
             0, got.mutex)
  /\ UNCHANGED <<tree, reference, nops>>

\* all_expenses: the answer
AllDone(r) ==
  /\ db.st = "ok"
  /\ got.reqs[r].pc = "each"
  /\ got.reqs[r].keys = <<>>
  /\ Stepped(r, "all_done", Idle, 200, 0)
  /\ UNCHANGED <<db, tree, reference, nops>>

NextServer ==
  \/ \E r \in Requests, a \in 1..MaxAmount : Receive(r, "post", 0, a)
  \/ \E r \in Requests, u \in 1..UnknownUuid : Receive(r, "get", u, 0)
  \/ \E r \in Requests : Receive(r, "all", 0, 0)
  \/ \E r \in Requests : Lock(r)
  \/ \E r \in Requests, u \in PostedUuids : PostUuid(r, u)
  \/ \E r \in Requests : PostAmount(r)
  \/ \E r \in Requests : PostRead(r)
  \/ \E r \in Requests : GetExpense(r)
  \/ \E r \in Requests : AllKeys(r)
  \/ \E r \in Requests : AllRead(r)
  \/ \E r \in Requests : AllDone(r)

SpecServer == InitServer /\ [][NextServer]_vars

\* the expense has the field on disk (read without keeping what get creates)
HasField(u, field, d) ==
  TreeEntry_value(Navigate(<<Tables_EXPENSES, u>>, d).offset, field,
                  Navigate(<<Tables_EXPENSES, u>>, d).db).val # None

HalfWritten(d) ==
  \E u \in 1..UnknownUuid : HasField(u, Expense_UUID, d) /\ ~HasField(u, Expense_AMOUNT, d)

InEngine(req) == req.pc \in {"post", "amount", "read", "get", "all", "each"}

\* C33: a request makes its engine calls only while it holds the mutex, so
\* at most one request is between its first and its last engine call, and
\* no reading request is there while an expense has its UUID field and not
\* yet its AMOUNT field.
C33_SerializedAccess ==
  /\ \A r \in Requests : InEngine(got.reqs[r]) => got.mutex = r
  /\ \A r \in Requests :
       got.reqs[r].pc \in {"get", "all", "each"} => ~HalfWritten(db)

\* a POST stands between its two set_value calls while a GET waits for the lock
C33_Witness ==
  /\ db.st = "ok"
  /\ HalfWritten(db)
  /\ \E r \in Requests : got.reqs[r].pc = "amount"
  /\ \E r \in Requests : got.reqs[r].pc = "lock" /\ got.reqs[r].kind = "get"

\* C34: the unwrap of get_all_expenses never fails: every key enumerated
\* under the EXPENSES tree has an AMOUNT value.
C34_AllExpensesNeverPanics == last.op = "all_read" => db.st = "ok"

\* ---------------------------------------------------- the writes of a split
\* BTree::insert into a tree whose root is a full leaf, one persisted write
\* at a time.  `got` holds the position inside the insert, the pages the
\* code has in memory and the writes so far; the other inserts are single
\* steps.  The last write hands the log to `last`, with what the same call
\* gives as a single step.
NoPage == [kind |-> "Leaf", offset |-> 0, keys |-> <<>>]
NotSplitting ==
  [pc |-> "idle", key |-> 0, data |-> <<>>, block |-> 0, node |-> NoPage,
   left |-> NoPage, right |-> NoPage, entries |-> <<>>, log |-> <<>>,
   whole |-> [disk |-> <<>>, root |-> 0]]

InitWrites ==
  /\ Created(BTree_init(Database_initialize(<<>>)))
  /\ reference = [k \in {} |-> <<>>]
  /\ last = [op |-> "init", key |-> 0, data |-> <<>>, log |-> <<>>, whole |-> TRUE]
  /\ nops = 0
  /\ got = NotSplitting

\* root.can_accommodate(data.len(), db.block_size()) of BTree::insert
RootFits(v) ==
  Page_can_accommodate(Page_load(tree, db).page, Len(v), block_size(db.meta))

RootIsLeaf == Page_load(tree, db).page.kind = "Leaf"

Wrote(w, g) == [g EXCEPT !.log = Append(@, w)]

\* an insert that is not followed write by write
WholeInsert(k, v) ==
  /\ db.st = "ok" /\ nops < MaxLeafOps
  /\ got.pc = "idle"
  /\ RootFits(v) \/ ~RootIsLeaf \/ k \in DOMAIN reference
  /\ Applied(BTree_insert(tree, k, v, db))
  /\ reference' = [x \in DOMAIN reference \cup {k} |-> IF x = k THEN v ELSE reference[x]]
  /\ last' = [op |-> "insert", key |-> k, data |-> v, log |-> <<>>, whole |-> TRUE]
  /\ nops' = nops + 1
  /\ UNCHANGED got

AllocRootDone(k, v, a, whole) ==
  /\ db' = a.db
  /\ got' = [NotSplitting EXCEPT !.pc = "init_root", !.key = k, !.data = v,
                                 !.block = a.val, !.log = <<"allocation">>,
                                 !.whole = [disk |-> whole.db.disk, root |-> whole.root]]

\* BTree::insert, the root full: allocate_block of InternalPage::init
AllocRoot(k, v) ==
  /\ db.st = "ok" /\ nops < MaxLeafOps
  /\ got.pc = "idle"
  /\ RootIsLeaf /\ ~RootFits(v) /\ k \notin DOMAIN reference
  /\ AllocRootDone(k, v, allocate_block(db), BTree_insert(tree, k, v, db))
  /\ UNCHANGED <<tree, reference, last, nops>>

InitRootDone(r) ==
  /\ db' = r.db
  /\ tree' = r.page.offset
  /\ got' = Wrote("parent", [got EXCEPT !.pc = "alloc_sibling", !.node = r.page])

\* page.persist of InternalPage::init, and self.root = page.offset()
InitRoot ==
  /\ got.pc = "init_root"
  /\ InitRootDone(InternalPage_init_at([db |-> db, val |-> got.block], tree))
  /\ UNCHANGED <<reference, last, nops>>

AllocSiblingDone(a, left) ==
  /\ db' = a.db
  /\ got' = Wrote("allocation",
                  [got EXCEPT !.pc = "init_sibling", !.block = a.val, !.left = left.page])

\* btree_split_child: Page::load of the child, and allocate_block of
\* LeafPage::init in split_in_half
AllocSibling ==
  /\ got.pc = "alloc_sibling"
  /\ AllocSiblingDone(allocate_block(db), Page_load(got.node.pointers[1], db))
  /\ UNCHANGED <<tree, reference, last, nops>>

InitSiblingDone(r) ==
  /\ db' = r.db
  /\ got' = Wrote("sibling_init",
        [got EXCEPT !.pc = "move_data", !.right = r.page,
           !.entries = SubSeq(got.left.keys, Len(got.left.keys) \div 2 + 1,
                              Len(got.left.keys))])

\* the write of LeafPage::init
InitSibling ==
  /\ got.pc = "init_sibling"
  /\ InitSiblingDone(LeafPage_init_at([db |-> db, val |-> got.block], block_size(db.meta)))
  /\ UNCHANGED <<tree, reference, last, nops>>

\* the slot upsert_value gave the key
SlotOf(page, key) == page.keys[FindEntry(page, key)]

\* the first write of upsert_value in `page`: the value, at its new place
DataWritten(page, key, data, u) ==
  Database_write(db, page.offset + SlotOf(u.page, key).offset, data)

MovedValue == lookup_value(got.left, got.entries[1].key, db.disk).val[1]

\* split_in_half, a turn of the loop: upsert_value writes the value
MoveData ==
  /\ got.pc = "move_data"
  /\ db' = DataWritten(got.right, got.entries[1].key, MovedValue,
                       LeafPage_upsert_value(got.right, got.entries[1].key, MovedValue, db))
  /\ got' = Wrote("sibling_data", [got EXCEPT !.pc = "move_header"])
  /\ UNCHANGED <<tree, reference, last, nops>>

MoveHeaderDone(u) ==
  /\ db' = u.db
  /\ got' = Wrote("sibling_header",
        [got EXCEPT !.pc = IF Tail(got.entries) = <<>> THEN "truncate" ELSE "move_data",
                    !.right = u.page, !.entries = Tail(@)])

\* split_in_half, a turn of the loop: upsert_value persists the header
MoveHeader ==
  /\ got.pc = "move_header"
  /\ MoveHeaderDone(LeafPage_upsert_value(got.right, got.entries[1].key, MovedValue, db))
  /\ UNCHANGED <<tree, reference, last, nops>>

TruncateDone(t) ==
  /\ db' = t.db
  /\ got' = Wrote("child_header", [got EXCEPT !.pc = "parent", !.left = t.page])

\* split_in_half: self.keys.truncate and self.persist_header
Truncate ==
  /\ got.pc = "truncate"
  /\ TruncateDone(split_truncate(got.left, Len(got.left.keys) \div 2,
                                 [db |-> db, page |-> got.right]))
  /\ UNCHANGED <<tree, reference, last, nops>>

ParentDone(n) ==
  /\ db' = n.db
  /\ got' = Wrote("parent", [got EXCEPT !.pc = "insert_data", !.node = n.page])

\* btree_split_child: node.safe_insert of the separator and the sibling
Parent ==
  /\ got.pc = "parent"
  /\ ParentDone(InternalPage_safe_insert(got.node, 0,
                   got.left.keys[Len(got.left.keys)].key, got.right.offset, db))
  /\ UNCHANGED <<tree, reference, last, nops>>

\* btree_insert_nonfull from the new root: the child the key belongs to
ChosenChild ==
  Page_load(got.node.pointers[binary_search(got.node.keys, got.key).idx + 1], db).page

ChildFits ==
  Page_can_accommodate(ChosenChild, Len(got.data), block_size(db.meta))

\* btree_insert_nonfull from the new root when the child has to split once
\* more: the rest of the insert, not followed write by write
InsertRest ==
  /\ got.pc = "insert_data"
  /\ ~ChildFits
  /\ db' = btree_insert_nonfull(got.node, got.key, got.data, db)
  /\ last' = [op |-> "insert", key |-> got.key, data |-> got.data, log |-> <<>>,
              whole |-> TRUE]
  /\ got' = NotSplitting
  /\ reference' = [x \in DOMAIN reference \cup {got.key} |->
                     IF x = got.key THEN got.data ELSE reference[x]]
  /\ nops' = nops + 1
  /\ UNCHANGED tree

\* btree_insert_nonfull in the child: upsert_value writes the value
InsertData ==
  /\ got.pc = "insert_data"
  /\ ChildFits
  /\ db' = DataWritten(ChosenChild, got.key, got.data,
                       LeafPage_upsert_value(ChosenChild, got.key, got.data, db))
  /\ got' = Wrote("child_data", [got EXCEPT !.pc = "insert_header"])
  /\ UNCHANGED <<tree, reference, last, nops>>

InsertHeaderDone(u) ==
  /\ db' = u.db
  /\ last' = [op |-> "split_insert", key |-> got.key, data |-> got.data,
              log |-> Append(got.log, "child_header"),
              whole |-> (u.db.disk = got.whole.disk /\ tree = got.whole.root)]
  /\ got' = NotSplitting

\* btree_insert_nonfull in the child: upsert_value persists the header, and
\* the insert returns
InsertHeader ==
  /\ got.pc = "insert_header"
  /\ InsertHeaderDone(LeafPage_upsert_value(ChosenChild, got.key, got.data, db))
  /\ reference' = [x \in DOMAIN reference \cup {got.key} |->
                     IF x = got.key THEN got.data ELSE reference[x]]
  /\ nops' = nops + 1
  /\ UNCHANGED tree

NextWrites ==
  \/ \E k \in 1..MaxBigKey, v \in Values : WholeInsert(k, v)
  \/ \E k \in 1..MaxBigKey, v \in Values : AllocRoot(k, v)
  \/ InitRoot
  \/ AllocSibling
  \/ InitSibling
  \/ MoveData
  \/ MoveHeader
  \/ Truncate
  \/ Parent
  \/ InsertRest
  \/ InsertData
  \/ InsertHeader

SpecWrites == InitWrites /\ [][NextWrites]_vars

\* the insert followed write by write leaves what the insert leaves
WritesAreTheInsert == last.op = "split_insert" => (last.whole /\ db.st = "ok")

\* the place the spec gives a write in a splitting insert: the data of a
\* child, the header of a child, the new sibling (its allocation, its block
\* and its header), the parent, the file header with the new root
WriteRank(w) ==
  CASE w = "child_data" -> 1
    [] w = "child_header" -> 2
    [] w \in {"allocation", "sibling_init", "sibling_data", "sibling_header"} -> 3
    [] w = "parent" -> 4
    [] w = "root_in_file_header" -> 5

InOrder(log) == \A i, j \in 1..Len(log) : i < j => WriteRank(log[i]) <= WriteRank(log[j])

\* every pointer of the parent on the device leads to a page whose header
\* is on the device
ParentPointsAtWritten ==
  got.pc \notin {"idle", "init_root"} =>
    \A i \in 1..Len(Page_load(got.node.offset, db).page.pointers) :
      ValidPage(Page_load(got.node.offset, db).page.pointers[i], db)

\* C31: the writes of an insert that splits the root come in the order
\* child data, child header, new sibling, parent, and the file header with
\* the new root last; the parent is never on the device with a pointer to
\* a sibling whose header is not.
C31_WriteOrder ==
  /\ ParentPointsAtWritten
  /\ last.op = "split_insert" =>
       (InOrder(last.log) /\ last.log[Len(last.log)] = "root_in_file_header")

\* ------------------------------------------------------------ a short device
\* The calls of SpecIsolation and value, on a device that lost its end: the
\* file is cut and opened again with Database::from_existing, and a read
\* past the end of the device is the I/O error of the calls that follow.
\* `tree` is the length the device was cut to (0 before).
CutPoints == {0, U8_SIZE, U8_SIZE + U64_SIZE}

Shorten(b, o) ==
  /\ db.st = "ok" /\ tree = 0 /\ nops > 0
  /\ block_size(db.meta) * b + o < Len(db.disk)
  /\ db' = Database_from_existing(SubSeq(db.disk, 1, block_size(db.meta) * b + o))
  /\ tree' = block_size(db.meta) * b + o
  /\ last' = [op |-> "shorten", path |-> <<>>, key |-> 0, data |-> <<>>,
              entry |-> 0, tree |-> 0, result |-> None]
  /\ UNCHANGED <<reference, nops, got>>

NextShort ==
  \/ \E p \in Paths(0, MaxDepth), k \in TreeKeys, v \in TreeValues : SetValue(p, k, v)
  \/ \E p \in Paths(0, MaxDepth - 1), k \in TreeKeys : Get(p, k)
  \/ \E p \in Paths(0, MaxDepth), k \in TreeKeys : Value(p, k)
  \/ \E p \in Paths(0, MaxDepth), k \in TreeKeys : DeleteIn(p, k)
  \/ \E b \in 1..(2 * MaxTreeOps), o \in CutPoints : Shorten(b, o)

SpecShort == InitTree /\ [][NextShort]_vars

\* the root tree's page is not whole on the device: its tag or its count of
\* keys is past the end
RootCutOff(d) ==
  /\ d.meta.root_btree_offset # 0
  /\ ~CanRead(d.disk, d.meta.root_btree_offset, U8_SIZE + U64_SIZE)

=============================================================================
